---- MODULE Spec2Model ----
(***************************************************************************)
(* pgn_check: the PGN validator and corrector of validator.go and the      *)
(* command-line wrapper of main.go.                                        *)
(*                                                                         *)
(* A string is a sequence of one-character strings; a file is the sequence *)
(* of lines bufio.Scanner hands out (line terminators already removed).    *)
(* An issue message is the pair of its Sprintf format and its arguments.   *)
(***************************************************************************)
EXTENDS Integers, Sequences, FiniteSets, TLC

(***************************************************************************)
(* Character classes and the string helpers of package strings.            *)
(***************************************************************************)
DigitSeq == <<"0", "1", "2", "3", "4", "5", "6", "7", "8", "9">>

Digit == {DigitSeq[i] : i \in 1..10}

UpperSeq ==
  <<"A", "B", "C", "D", "E", "F", "G", "H", "I", "J", "K", "L", "M",
    "N", "O", "P", "Q", "R", "S", "T", "U", "V", "W", "X", "Y", "Z">>

LowerSeq ==
  <<"a", "b", "c", "d", "e", "f", "g", "h", "i", "j", "k", "l", "m",
    "n", "o", "p", "q", "r", "s", "t", "u", "v", "w", "x", "y", "z">>

Upper == {UpperSeq[i] : i \in 1..26}

Lower == {LowerSeq[i] : i \in 1..26}

\* \w of the regexp package
WordChar == Digit \cup Upper \cup Lower \cup {"_"}

\* \s of the regexp package, and the white space strings.TrimSpace removes
Space == {" ", "\t"}

FileChar == {"a", "b", "c", "d", "e", "f", "g", "h"}

RankChar == {"1", "2", "3", "4", "5", "6", "7", "8"}

PieceChar == {"K", "Q", "R", "B", "N"}

PromoChar == {"Q", "R", "B", "N"}

HasPrefix(s, p) == Len(s) >= Len(p) /\ SubSeq(s, 1, Len(p)) = p

RECURSIVE TrimLeftSet(_, _)
TrimLeftSet(s, cut) ==
  IF s # <<>> /\ Head(s) \in cut THEN TrimLeftSet(Tail(s), cut) ELSE s

RECURSIVE TrimRight(_, _)
TrimRight(s, cut) ==
  IF s # <<>> /\ s[Len(s)] \in cut
  THEN TrimRight(SubSeq(s, 1, Len(s) - 1), cut)
  ELSE s

TrimSpace(s) == TrimRight(TrimLeftSet(s, Space), Space)

ToLowerChar(c) ==
  IF c \in Upper THEN LowerSeq[CHOOSE i \in 1..26 : UpperSeq[i] = c] ELSE c

ToLower(s) == [i \in 1..Len(s) |-> ToLowerChar(s[i])]

\* every character of s[i..j] is in class
AllIn(s, i, j, class) == \A k \in i..j : s[k] \in class

\* fmt.Sprintf("%d", n) for n >= 0
RECURSIVE Itoa(_)
Itoa(n) ==
  IF n < 10 THEN <<DigitSeq[n + 1]>>
  ELSE Itoa(n \div 10) \o <<DigitSeq[(n % 10) + 1]>>

DigitVal(c) == (CHOOSE i \in 1..10 : DigitSeq[i] = c) - 1

\* fmt.Sscanf(s, "%d", &n) on a string of digits
RECURSIVE Atoi(_)
Atoi(s) ==
  IF s = <<>> THEN 0
  ELSE 10 * Atoi(SubSeq(s, 1, Len(s) - 1)) + DigitVal(s[Len(s)])

\* fmt.Sprintf(format, args...) kept as the format and its arguments
Sprintf(format, args) == [fmt |-> format, args |-> args]

ValidationError(line, message) == [Line |-> line, Message |-> message]

(***************************************************************************)
(* The compiled patterns.  A pattern made of single-character items, some  *)
(* of them optional, and anchored at both ends matches when some choice of *)
(* the optional items spells the whole string.                             *)
(***************************************************************************)
One(class) == [cls |-> class, opt |-> FALSE]

Opt(class) == [cls |-> class, opt |-> TRUE]

RECURSIVE MatchFrom(_, _, _, _)
MatchFrom(s, i, pat, j) ==
  IF j > Len(pat) THEN i > Len(s)
  ELSE \/ /\ i <= Len(s)
          /\ s[i] \in pat[j].cls
          /\ MatchFrom(s, i + 1, pat, j + 1)
       \/ /\ pat[j].opt
          /\ MatchFrom(s, i, pat, j + 1)

FullMatch(s, pat) == MatchFrom(s, 1, pat, 1)

D4 == <<One(Digit), One(Digit), One(Digit), One(Digit)>>

D2 == <<One(Digit), One(Digit)>>

Q4 == <<One({"?"}), One({"?"}), One({"?"}), One({"?"})>>

Q2 == <<One({"?"}), One({"?"})>>

Lit(c) == <<One({c})>>

\* the last index of the longest run of class characters of s that starts at i
RECURSIVE RunEnd(_, _, _)
RunEnd(s, i, class) ==
  IF i <= Len(s) /\ s[i] \in class THEN RunEnd(s, i + 1, class) ELSE i - 1

\* tagPattern with \s* for \s+ between the name and the value
tagPatternOptionalSpace(line) ==
  LET n == Len(line)
      nameEnd == RunEnd(line, 2, WordChar)
      spEnd == RunEnd(line, nameEnd + 1, Space)
      q == spEnd + 1
  IN  IF /\ n >= 1
         /\ line[1] = "["
         /\ nameEnd >= 2
         /\ q <= n
         /\ line[q] = "\""
         /\ n >= q + 2
         /\ line[n - 1] = "\""
         /\ line[n] = "]"
      THEN <<line, SubSeq(line, 2, nameEnd), SubSeq(line, q + 1, n - 2)>>
      ELSE <<>>

\* tagPattern.FindStringSubmatch(line): <<>> for nil, else <<whole, name, value>>
tagPattern(line) ==
  LET n == Len(line)
      nameEnd == RunEnd(line, 2, WordChar)
      spEnd == RunEnd(line, nameEnd + 1, Space)
      q == spEnd + 1
  IN  IF /\ n >= 1
         /\ line[1] = "["
         /\ nameEnd >= 2
         /\ spEnd > nameEnd
         /\ q <= n
         /\ line[q] = "\""
         /\ n >= q + 2
         /\ line[n - 1] = "\""
         /\ line[n] = "]"
      THEN <<line, SubSeq(line, 2, nameEnd), SubSeq(line, q + 1, n - 2)>>
      ELSE <<>>

\* correctDatePattern with the month held to 01..12
correctDatePatternMonthChecked(s) ==
  /\ FullMatch(s, D4 \o Lit(".") \o D2 \o Lit(".") \o D2)
  /\ Atoi(SubSeq(s, 6, 7)) \in 1..12

correctDatePattern(s) ==
  FullMatch(s, D4 \o Lit(".") \o D2 \o Lit(".") \o D2)

wildcardDatePattern(s) ==
  FullMatch(s, Q4 \o Lit(".") \o Q2 \o Lit(".") \o Q2)

\* the date fixing patterns: <<>> for nil, else <<whole, group 1, group 2, group 3>>
datePatternISO(s) ==
  IF FullMatch(s, D4 \o Lit("-") \o D2 \o Lit("-") \o D2)
  THEN <<s, SubSeq(s, 1, 4), SubSeq(s, 6, 7), SubSeq(s, 9, 10)>>
  ELSE <<>>

datePatternDDMMYYYY(s) ==
  IF FullMatch(s, D2 \o Lit("/") \o D2 \o Lit("/") \o D4)
  THEN <<s, SubSeq(s, 1, 2), SubSeq(s, 4, 5), SubSeq(s, 7, 10)>>
  ELSE <<>>

datePatternYYYYMMDD(s) ==
  IF FullMatch(s, D4 \o Lit("/") \o D2 \o Lit("/") \o D2)
  THEN <<s, SubSeq(s, 1, 4), SubSeq(s, 6, 7), SubSeq(s, 9, 10)>>
  ELSE <<>>

\* datePatternNoSep with a "/" allowed between the groups
datePatternNoSepOptionalSlash(s) ==
  IF FullMatch(s, D4 \o <<Opt({"/"})>> \o D2 \o <<Opt({"/"})>> \o D2)
  THEN LET d == SelectSeq(s, LAMBDA c : c \in Digit)
       IN  <<s, SubSeq(d, 1, 4), SubSeq(d, 5, 6), SubSeq(d, 7, 8)>>
  ELSE <<>>

datePatternNoSep(s) ==
  IF FullMatch(s, D4 \o D2 \o D2)
  THEN <<s, SubSeq(s, 1, 4), SubSeq(s, 5, 6), SubSeq(s, 7, 8)>>
  ELSE <<>>

(***************************************************************************)
(* The tag checker.  Every check takes the issue list and returns it with  *)
(* the issues of the check appended, as the methods append to v.errors.    *)
(***************************************************************************)
Dot(a, b, c) == a \o <<".">> \o b \o <<".">> \o c

\* tryFixDate reading NN/NN/NNNN as month/day/year
tryFixDateMonthFirst(dateValue0) ==
  LET dateValue == TrimSpace(dateValue0)
      iso == datePatternISO(dateValue)
      dmy == datePatternDDMMYYYY(dateValue)
      ymd == datePatternYYYYMMDD(dateValue)
      nosep == datePatternNoSep(dateValue)
  IN  IF iso # <<>> THEN [ok |-> TRUE, date |-> Dot(iso[2], iso[3], iso[4])]
      ELSE IF dmy # <<>> THEN [ok |-> TRUE, date |-> Dot(dmy[4], dmy[2], dmy[3])]
      ELSE IF ymd # <<>> THEN [ok |-> TRUE, date |-> Dot(ymd[2], ymd[3], ymd[4])]
      ELSE IF nosep # <<>>
           THEN [ok |-> TRUE, date |-> Dot(nosep[2], nosep[3], nosep[4])]
      ELSE [ok |-> FALSE, date |-> <<>>]

\* tryFixDate leaving the groups of a day/month/year date in their places
tryFixDateKeepsOrder(dateValue0) ==
  LET dateValue == TrimSpace(dateValue0)
      iso == datePatternISO(dateValue)
      dmy == datePatternDDMMYYYY(dateValue)
      ymd == datePatternYYYYMMDD(dateValue)
      nosep == datePatternNoSep(dateValue)
  IN  IF iso # <<>> THEN [ok |-> TRUE, date |-> Dot(iso[2], iso[3], iso[4])]
      ELSE IF dmy # <<>> THEN [ok |-> TRUE, date |-> Dot(dmy[2], dmy[3], dmy[4])]
      ELSE IF ymd # <<>> THEN [ok |-> TRUE, date |-> Dot(ymd[2], ymd[3], ymd[4])]
      ELSE IF nosep # <<>>
           THEN [ok |-> TRUE, date |-> Dot(nosep[2], nosep[3], nosep[4])]
      ELSE [ok |-> FALSE, date |-> <<>>]

\* tryFixDate: [ok |-> err == nil, date |-> the corrected date or ""]
tryFixDate(dateValue0) ==
  LET dateValue == TrimSpace(dateValue0)
      iso == datePatternISO(dateValue)
      dmy == datePatternDDMMYYYY(dateValue)
      ymd == datePatternYYYYMMDD(dateValue)
      nosep == datePatternNoSep(dateValue)
  IN  IF iso # <<>> THEN [ok |-> TRUE, date |-> Dot(iso[2], iso[3], iso[4])]
      ELSE IF dmy # <<>> THEN [ok |-> TRUE, date |-> Dot(dmy[4], dmy[3], dmy[2])]
      ELSE IF ymd # <<>> THEN [ok |-> TRUE, date |-> Dot(ymd[2], ymd[3], ymd[4])]
      ELSE IF nosep # <<>>
           THEN [ok |-> TRUE, date |-> Dot(nosep[2], nosep[3], nosep[4])]
      ELSE [ok |-> FALSE, date |-> <<>>]

FmtInvalidDate ==
  "Invalid date format: '%s'. Required format: YYYY.MM.DD (example: 2024.01.05)"

FmtDateCorrected == "Date auto-corrected: '%s' -> '%s'"

FmtInvalidResult == "Invalid result: '%s'. Valid values: 1-0, 0-1, 1/2-1/2, *"

FmtMalformedTag == "Malformed PGN tag: %s"

validateDate(errs, dateValue, lineNumber) ==
  IF correctDatePattern(dateValue) \/ wildcardDatePattern(dateValue)
  THEN errs
  ELSE LET fixed == tryFixDate(dateValue)
       IN  IF ~fixed.ok
           THEN Append(errs, ValidationError(lineNumber,
                         Sprintf(FmtInvalidDate, <<dateValue>>)))
           ELSE Append(errs, ValidationError(lineNumber,
                         Sprintf(FmtDateCorrected, <<dateValue, fixed.date>>)))

validResults ==
  { <<"1", "-", "0">>, <<"0", "-", "1">>,
    <<"1", "/", "2", "-", "1", "/", "2">>, <<"*">> }

\* validateResult trimming the value first
validateResultTrimmed(errs, resultValue, lineNumber) ==
  IF TrimSpace(resultValue) \notin validResults
  THEN Append(errs, ValidationError(lineNumber,
                Sprintf(FmtInvalidResult, <<resultValue>>)))
  ELSE errs

validateResult(errs, resultValue, lineNumber) ==
  IF resultValue \notin validResults
  THEN Append(errs, ValidationError(lineNumber,
                Sprintf(FmtInvalidResult, <<resultValue>>)))
  ELSE errs

NameDate == <<"d", "a", "t", "e">>

NameEventDate == <<"e", "v", "e", "n", "t", "d", "a", "t", "e">>

NameResult == <<"r", "e", "s", "u", "l", "t">>

\* validateTag comparing the tag name as written, without strings.ToLower
validateTagCaseSensitive(errs, line, lineNumber) ==
  LET matches == tagPattern(line)
  IN  IF matches = <<>>
      THEN Append(errs, ValidationError(lineNumber,
                    Sprintf(FmtMalformedTag, <<line>>)))
      ELSE LET tagName == matches[2]
               tagValue == matches[3]
               afterDate ==
                 IF tagName = NameDate \/ tagName = NameEventDate
                 THEN validateDate(errs, tagValue, lineNumber)
                 ELSE errs
           IN  IF tagName = NameResult
               THEN validateResult(afterDate, tagValue, lineNumber)
               ELSE afterDate

validateTag(errs, line, lineNumber) ==
  LET matches == tagPattern(line)
  IN  IF matches = <<>>
      THEN Append(errs, ValidationError(lineNumber,
                    Sprintf(FmtMalformedTag, <<line>>)))
      ELSE LET tagName == matches[2]
               tagValue == matches[3]
               tagNameLower == ToLower(tagName)
               afterDate ==
                 IF tagNameLower = NameDate \/ tagNameLower = NameEventDate
                 THEN validateDate(errs, tagValue, lineNumber)
                 ELSE errs
           IN  IF tagNameLower = NameResult
               THEN validateResult(afterDate, tagValue, lineNumber)
               ELSE afterDate

(***************************************************************************)
(* The movetext checker.                                                   *)
(***************************************************************************)
MoveChar ==
  Lower \cup Upper \cup Digit \cup Space
    \cup {"+", "#", "=", "-", "!", "?", "(", ")", ".", "*", "/", "{", "}"}

validMovePattern(line) == Len(line) >= 1 /\ AllIn(line, 1, Len(line), MoveChar)

\* the loop of checkBalancedDelimiters from character i on, count being the
\* running counter
RECURSIVE BalancedFrom(_, _, _, _, _)
BalancedFrom(line, i, count, open, close) ==
  IF i > Len(line) THEN count = 0
  ELSE IF line[i] = open THEN BalancedFrom(line, i + 1, count + 1, open, close)
  ELSE IF line[i] = close
       THEN IF count - 1 < 0 THEN FALSE
            ELSE BalancedFrom(line, i + 1, count - 1, open, close)
  ELSE BalancedFrom(line, i + 1, count, open, close)

\* the loop of checkBalancedDelimiters without the return on a negative count
RECURSIVE TotalsFrom(_, _, _, _, _)
TotalsFrom(line, i, count, open, close) ==
  IF i > Len(line) THEN count = 0
  ELSE IF line[i] = open THEN TotalsFrom(line, i + 1, count + 1, open, close)
  ELSE IF line[i] = close THEN TotalsFrom(line, i + 1, count - 1, open, close)
  ELSE TotalsFrom(line, i + 1, count, open, close)

\* checkBalancedDelimiters comparing the totals only
checkBalancedDelimitersTotalsOnly(line, open, close) ==
  TotalsFrom(line, 1, 0, open, close)

checkBalancedDelimiters(line, open, close) ==
  BalancedFrom(line, 1, 0, open, close)

Top(stack) == stack[Len(stack)]

Pop(stack) == SubSeq(stack, 1, Len(stack) - 1)

RECURSIVE NestingFrom(_, _, _)
NestingFrom(line, i, stack) ==
  IF i > Len(line) THEN Len(stack) = 0
  ELSE IF line[i] \in {"(", "{"}
       THEN NestingFrom(line, i + 1, Append(stack, line[i]))
  ELSE IF line[i] = ")"
       THEN IF Len(stack) = 0 \/ Top(stack) # "(" THEN FALSE
            ELSE NestingFrom(line, i + 1, Pop(stack))
  ELSE IF line[i] = "}"
       THEN IF Len(stack) = 0 \/ Top(stack) # "{" THEN FALSE
            ELSE NestingFrom(line, i + 1, Pop(stack))
  ELSE NestingFrom(line, i + 1, stack)

\* the loop of checkProperNesting with a closer taking any opener off the stack
RECURSIVE NestingAnyFrom(_, _, _)
NestingAnyFrom(line, i, stack) ==
  IF i > Len(line) THEN Len(stack) = 0
  ELSE IF line[i] \in {"(", "{"}
       THEN NestingAnyFrom(line, i + 1, Append(stack, line[i]))
  ELSE IF line[i] \in {")", "}"}
       THEN IF Len(stack) = 0 THEN FALSE
            ELSE NestingAnyFrom(line, i + 1, Pop(stack))
  ELSE NestingAnyFrom(line, i + 1, stack)

\* checkProperNesting without the comparison of the closer with the opener
checkProperNestingAnyCloser(line) == NestingAnyFrom(line, 1, <<>>)

\* the loop of checkProperNesting not looking at the stack at the end of the
\* line
RECURSIVE NestingOpenFrom(_, _, _)
NestingOpenFrom(line, i, stack) ==
  IF i > Len(line) THEN TRUE
  ELSE IF line[i] \in {"(", "{"}
       THEN NestingOpenFrom(line, i + 1, Append(stack, line[i]))
  ELSE IF line[i] = ")"
       THEN IF Len(stack) = 0 \/ Top(stack) # "(" THEN FALSE
            ELSE NestingOpenFrom(line, i + 1, Pop(stack))
  ELSE IF line[i] = "}"
       THEN IF Len(stack) = 0 \/ Top(stack) # "{" THEN FALSE
            ELSE NestingOpenFrom(line, i + 1, Pop(stack))
  ELSE NestingOpenFrom(line, i + 1, stack)

\* checkProperNesting accepting a line that leaves delimiters open
checkProperNestingOpenLeft(line) == NestingOpenFrom(line, 1, <<>>)

checkProperNesting(line) == NestingFrom(line, 1, <<>>)

RECURSIVE RemoveCommentsFrom(_, _, _, _)
RemoveCommentsFrom(line, i, inComment, result) ==
  IF i > Len(line) THEN result
  ELSE IF line[i] = "{" THEN RemoveCommentsFrom(line, i + 1, TRUE, result)
  ELSE IF line[i] = "}" THEN RemoveCommentsFrom(line, i + 1, FALSE, result)
  ELSE IF ~inComment
       THEN RemoveCommentsFrom(line, i + 1, inComment, Append(result, line[i]))
  ELSE RemoveCommentsFrom(line, i + 1, inComment, result)

\* removeComments counting the braces, a comment ending with the brace that
\* matches its first one
RECURSIVE RemoveNestedCommentsFrom(_, _, _, _)
RemoveNestedCommentsFrom(line, i, depth, result) ==
  IF i > Len(line) THEN result
  ELSE IF line[i] = "{" THEN RemoveNestedCommentsFrom(line, i + 1, depth + 1, result)
  ELSE IF line[i] = "}"
       THEN RemoveNestedCommentsFrom(line, i + 1,
                                     IF depth > 0 THEN depth - 1 ELSE depth, result)
  ELSE IF depth = 0
       THEN RemoveNestedCommentsFrom(line, i + 1, depth, Append(result, line[i]))
  ELSE RemoveNestedCommentsFrom(line, i + 1, depth, result)

removeCommentsDepthAware(line) == RemoveNestedCommentsFrom(line, 1, 0, <<>>)

removeComments(line) == RemoveCommentsFrom(line, 1, FALSE, <<>>)

RECURSIVE RemoveVariationsFrom(_, _, _, _)
RemoveVariationsFrom(line, i, depth, result) ==
  IF i > Len(line) THEN result
  ELSE IF line[i] = "(" THEN RemoveVariationsFrom(line, i + 1, depth + 1, result)
  ELSE IF line[i] = ")"
       THEN RemoveVariationsFrom(line, i + 1,
                                 IF depth > 0 THEN depth - 1 ELSE depth, result)
  ELSE IF depth = 0
       THEN RemoveVariationsFrom(line, i + 1, depth, Append(result, line[i]))
  ELSE RemoveVariationsFrom(line, i + 1, depth, result)

removeVariations(line) == RemoveVariationsFrom(line, 1, 0, <<>>)

\* the closing delimiters for what is left on the stack, innermost first
\* ClosersOf closing the delimiters in the order they were opened in
ClosersInOrder(stack, i) ==
  [j \in 1..i |-> IF stack[j] = "(" THEN ")" ELSE "}"]

RECURSIVE ClosersOf(_, _)
ClosersOf(stack, i) ==
  IF i < 1 THEN <<>>
  ELSE (IF stack[i] = "(" THEN <<")">>
        ELSE IF stack[i] = "{" THEN <<"}">> ELSE <<>>)
       \o ClosersOf(stack, i - 1)

RECURSIVE FixFrom(_, _, _, _)
FixFrom(line, i, stack, result) ==
  IF i > Len(line) THEN result \o ClosersOf(stack, Len(stack))
  ELSE IF line[i] \in {"(", "{"}
       THEN FixFrom(line, i + 1, Append(stack, line[i]), Append(result, line[i]))
  ELSE IF line[i] = ")"
       THEN IF Len(stack) > 0 /\ Top(stack) = "("
            THEN FixFrom(line, i + 1, Pop(stack), Append(result, line[i]))
            ELSE FixFrom(line, i + 1, stack, result)
  ELSE IF line[i] = "}"
       THEN IF Len(stack) > 0 /\ Top(stack) = "{"
            THEN FixFrom(line, i + 1, Pop(stack), Append(result, line[i]))
            ELSE FixFrom(line, i + 1, stack, result)
  ELSE FixFrom(line, i + 1, stack, Append(result, line[i]))

\* fixBalancedDelimiters without the closing delimiters added at the end
RECURSIVE FixFromNoClosers(_, _, _, _)
FixFromNoClosers(line, i, stack, result) ==
  IF i > Len(line) THEN result
  ELSE IF line[i] \in {"(", "{"}
       THEN FixFromNoClosers(line, i + 1, Append(stack, line[i]),
                             Append(result, line[i]))
  ELSE IF line[i] = ")"
       THEN IF Len(stack) > 0 /\ Top(stack) = "("
            THEN FixFromNoClosers(line, i + 1, Pop(stack), Append(result, line[i]))
            ELSE FixFromNoClosers(line, i + 1, stack, result)
  ELSE IF line[i] = "}"
       THEN IF Len(stack) > 0 /\ Top(stack) = "{"
            THEN FixFromNoClosers(line, i + 1, Pop(stack), Append(result, line[i]))
            ELSE FixFromNoClosers(line, i + 1, stack, result)
  ELSE FixFromNoClosers(line, i + 1, stack, Append(result, line[i]))

fixBalancedDelimitersDropsOnly(line) == FixFromNoClosers(line, 1, <<>>, <<>>)

fixBalancedDelimiters(line) == FixFrom(line, 1, <<>>, <<>>)

NonSpace(s, i) == i <= Len(s) /\ s[i] \notin Space

\* the last index of the longest run of characters outside \s that starts at i
RECURSIVE TokenEnd(_, _)
TokenEnd(s, i) == IF NonSpace(s, i) THEN TokenEnd(s, i + 1) ELSE i - 1

\* movePattern matched with its first character at i:
\* [ok, next (the index after the match), m (<<whole, number, white, black>>)]
MoveMatchAt(s, i) ==
  LET numEnd == RunEnd(s, i, Digit)
      wStart == RunEnd(s, numEnd + 2, Space) + 1
      wEnd == TokenEnd(s, wStart)
      bStart == RunEnd(s, wEnd + 1, Space) + 1
      bEnd == TokenEnd(s, bStart)
      hasBlack == bStart > wEnd + 1 /\ bEnd >= bStart
      last == IF hasBlack THEN bEnd ELSE wEnd
  IN  IF /\ numEnd >= i
         /\ numEnd + 1 <= Len(s)
         /\ s[numEnd + 1] = "."
         /\ wEnd >= wStart
      THEN [ok |-> TRUE, next |-> last + 1,
            m |-> <<SubSeq(s, i, last), SubSeq(s, i, numEnd),
                    SubSeq(s, wStart, wEnd),
                    IF hasBlack THEN SubSeq(s, bStart, bEnd) ELSE <<>>>>]
      ELSE [ok |-> FALSE, next |-> i + 1, m |-> <<>>]

\* movePattern.FindAllStringSubmatch(s, -1): the leftmost matches, in order,
\* none overlapping another
RECURSIVE FindAllFrom(_, _)
FindAllFrom(s, i) ==
  IF i > Len(s) THEN <<>>
  ELSE LET r == MoveMatchAt(s, i)
       IN  IF r.ok THEN <<r.m>> \o FindAllFrom(s, r.next)
           ELSE FindAllFrom(s, i + 1)

movePattern(s) == FindAllFrom(s, 1)

promotionPattern(s) ==
  FullMatch(s, <<Opt(FileChar), One(FileChar), One(RankChar), One({"="}),
                 One(PromoChar)>>)

piecePattern(s) ==
  FullMatch(s, <<One(PieceChar), Opt(FileChar), Opt(RankChar), Opt({"x"}),
                 One(FileChar), One(RankChar)>>)

pawnPattern(s) ==
  FullMatch(s, <<One(FileChar), Opt({"x"}), One(FileChar), One(RankChar)>>)

simplePawnPattern(s) == FullMatch(s, <<One(FileChar), One(RankChar)>>)

ResultMarkers ==
  { <<"1", "-", "0">>, <<"0", "-", "1">>,
    <<"1", "/", "2", "-", "1", "/", "2">>, <<"*">> }

Castlings ==
  { <<"O", "-", "O">>, <<"O", "-", "O", "-", "O">>,
    <<"0", "-", "0">>, <<"0", "-", "0", "-", "0">> }

\* isValidMoveNotation removing the check marks before the annotations
isValidMoveNotationChecksFirst(move0) ==
  LET move == TrimRight(move0, {"+", "#"})
      moveWithoutCheck == TrimRight(move, {"!", "?"})
  IN  IF move \in ResultMarkers THEN TRUE
      ELSE IF moveWithoutCheck \in Castlings THEN TRUE
      ELSE IF promotionPattern(moveWithoutCheck) THEN TRUE
      ELSE IF /\ piecePattern(moveWithoutCheck)
              /\ moveWithoutCheck[1] \in {"K", "Q", "R", "B", "N"}
           THEN TRUE
      ELSE IF pawnPattern(moveWithoutCheck) THEN TRUE
      ELSE IF simplePawnPattern(moveWithoutCheck) THEN TRUE
      ELSE FALSE

isValidMoveNotation(move0) ==
  LET move == TrimRight(move0, {"!", "?"})
      moveWithoutCheck == TrimRight(move, {"+", "#"})
  IN  IF move \in ResultMarkers THEN TRUE
      ELSE IF moveWithoutCheck \in Castlings THEN TRUE
      ELSE IF promotionPattern(moveWithoutCheck) THEN TRUE
      ELSE IF /\ piecePattern(moveWithoutCheck)
              /\ moveWithoutCheck[1] \in {"K", "Q", "R", "B", "N"}
           THEN TRUE
      ELSE IF pawnPattern(moveWithoutCheck) THEN TRUE
      ELSE IF simplePawnPattern(moveWithoutCheck) THEN TRUE
      ELSE FALSE

FmtOutOfSequence == "Warning: Move number out of sequence. Expected %d, found %d"

FmtInvalidMove == "Warning: Invalid move notation '%s' at move %d"

\* MoveStep without the seeding: the first number of a line is held to be 1
MoveStepNoSeed(errs, expected, match, lineNumber) ==
  LET whiteMove == match[3]
      blackMove == match[4]
      moveNumber == Atoi(match[2])
      seq == IF moveNumber # expected + 1
             THEN [e |-> Append(errs, ValidationError(lineNumber,
                            Sprintf(FmtOutOfSequence,
                                    <<Itoa(expected + 1), Itoa(moveNumber)>>))),
                   x |-> moveNumber]
             ELSE [e |-> errs, x |-> expected + 1]
      white == IF ~isValidMoveNotation(whiteMove)
               THEN Append(seq.e, ValidationError(lineNumber,
                             Sprintf(FmtInvalidMove, <<whiteMove, Itoa(moveNumber)>>)))
               ELSE seq.e
      black == IF blackMove # <<>> /\ ~isValidMoveNotation(blackMove)
               THEN Append(white, ValidationError(lineNumber,
                             Sprintf(FmtInvalidMove, <<blackMove, Itoa(moveNumber)>>)))
               ELSE white
  IN  [e |-> black, x |-> seq.x]

\* one turn of the loop of validateMoveNotation over match: the issue list and
\* expectedMoveNumber after it
MoveStep(errs, expected, match, lineNumber) ==
  LET whiteMove == match[3]
      blackMove == match[4]
      moveNumber == Atoi(match[2])
      seq == IF expected = 0
             THEN [e |-> errs, x |-> moveNumber]
             ELSE IF moveNumber # expected + 1
                  THEN [e |-> Append(errs, ValidationError(lineNumber,
                                 Sprintf(FmtOutOfSequence,
                                         <<Itoa(expected + 1), Itoa(moveNumber)>>))),
                        x |-> moveNumber]
                  ELSE [e |-> errs, x |-> expected + 1]
      white == IF ~isValidMoveNotation(whiteMove)
               THEN Append(seq.e, ValidationError(lineNumber,
                             Sprintf(FmtInvalidMove, <<whiteMove, Itoa(moveNumber)>>)))
               ELSE seq.e
      black == IF blackMove # <<>> /\ ~isValidMoveNotation(blackMove)
               THEN Append(white, ValidationError(lineNumber,
                             Sprintf(FmtInvalidMove, <<blackMove, Itoa(moveNumber)>>)))
               ELSE white
  IN  [e |-> black, x |-> seq.x]

RECURSIVE MoveLoop(_, _, _, _, _)
MoveLoop(errs, expected, matches, k, lineNumber) ==
  IF k > Len(matches) THEN errs
  ELSE LET r == MoveStep(errs, expected, matches[k], lineNumber)
       IN  MoveLoop(r.e, r.x, matches, k + 1, lineNumber)

validateMoveNotation(errs, line, lineNumber) ==
  LET cleanLine == removeVariations(removeComments(line))
  IN  MoveLoop(errs, 0, movePattern(cleanLine), 1, lineNumber)

MsgDisallowed == "Invalid move format: disallowed characters found"

MsgUnbalancedParens == "Warning: Unbalanced parentheses in variations"

MsgUnbalancedBraces == "Warning: Unbalanced curly braces in comments"

MsgImproperNesting == "Warning: Improper nesting of parentheses and braces"

\* validateMoves returning after the issue about disallowed characters
validateMovesStopsAtDisallowed(errs, line, lineNumber) ==
  IF ~validMovePattern(line)
  THEN Append(errs, ValidationError(lineNumber, Sprintf(MsgDisallowed, <<>>)))
  ELSE LET e2 == IF ~checkBalancedDelimiters(line, "(", ")")
                 THEN Append(errs, ValidationError(lineNumber,
                                     Sprintf(MsgUnbalancedParens, <<>>)))
                 ELSE errs
           e3 == IF ~checkBalancedDelimiters(line, "{", "}")
                 THEN Append(e2, ValidationError(lineNumber,
                                   Sprintf(MsgUnbalancedBraces, <<>>)))
                 ELSE e2
           e4 == IF ~checkProperNesting(line)
                 THEN Append(e3, ValidationError(lineNumber,
                                   Sprintf(MsgImproperNesting, <<>>)))
                 ELSE e3
       IN  validateMoveNotation(e4, line, lineNumber)

validateMoves(errs, line, lineNumber) ==
  LET e1 == IF ~validMovePattern(line)
            THEN Append(errs, ValidationError(lineNumber, Sprintf(MsgDisallowed, <<>>)))
            ELSE errs
      e2 == IF ~checkBalancedDelimiters(line, "(", ")")
            THEN Append(e1, ValidationError(lineNumber,
                              Sprintf(MsgUnbalancedParens, <<>>)))
            ELSE e1
      e3 == IF ~checkBalancedDelimiters(line, "{", "}")
            THEN Append(e2, ValidationError(lineNumber,
                              Sprintf(MsgUnbalancedBraces, <<>>)))
            ELSE e2
      e4 == IF ~checkProperNesting(line)
            THEN Append(e3, ValidationError(lineNumber,
                              Sprintf(MsgImproperNesting, <<>>)))
            ELSE e3
  IN  validateMoveNotation(e4, line, lineNumber)

(***************************************************************************)
(* The two scans and the command-line wrapper.                             *)
(***************************************************************************)
VARIABLES
  file,        \* the lines of the input file
  outputFile,  \* whether -o was given
  pc,          \* where main, ValidateFile or WriteCorrectedFile stands
  errors,      \* v.errors
  lineNumber,  \* ValidateFile's lineNumber
  inHeader,    \* ValidateFile's inHeader
  lineCount,   \* WriteCorrectedFile's lineCount
  wInHeader,   \* WriteCorrectedFile's inHeader
  out,         \* the strings WriteCorrectedFile has written, in order
  wErr,        \* the error WriteCorrectedFile returned ("" for nil)
  printed,     \* the issues main has printed, in order
  exitCode,    \* the status the process exited with (-1 while it runs)
  arr,         \* the backing array v.errors points to (arrays are numbered)
  held         \* the lists earlier calls of ValidateFile returned to the caller

vars ==
  <<file, outputFile, pc, errors, lineNumber, inHeader, lineCount, wInHeader,
    out, wErr, printed, exitCode, arr, held>>

vVars == <<errors, lineNumber, inHeader>>

wVars == <<lineCount, wInHeader, out, wErr>>

mVars == <<printed, exitCode>>

cVars == <<arr, held>>

\* the text of an I/O error, which the program only prints
ErrText == <<"e", "r", "r">>

\* ValidateLine with a tag line leaving inHeader as it is
ValidateLineKeepsFlag(errs, inH, rawLine, n) ==
  LET line == TrimSpace(rawLine)
  IN  IF line = <<>> THEN [errors |-> errs, inHeader |-> inH]
      ELSE IF HasPrefix(line, <<"[">>)
           THEN [errors |-> validateTag(errs, line, n), inHeader |-> inH]
      ELSE [errors |-> validateMoves(errs, line, n), inHeader |-> FALSE]

\* ValidateLine taking a line that starts with "[" for a tag only while in
\* the header
ValidateLineTagsInHeaderOnly(errs, inH, rawLine, n) ==
  LET line == TrimSpace(rawLine)
  IN  IF line = <<>> THEN [errors |-> errs, inHeader |-> inH]
      ELSE IF inH /\ HasPrefix(line, <<"[">>)
           THEN [errors |-> validateTag(errs, line, n), inHeader |-> TRUE]
      ELSE [errors |-> validateMoves(errs, line, n), inHeader |-> FALSE]

\* one turn of ValidateFile's loop on the line just read
ValidateLine(errs, inH, rawLine, n) ==
  LET line == TrimSpace(rawLine)
  IN  IF line = <<>> THEN [errors |-> errs, inHeader |-> inH]
      ELSE IF HasPrefix(line, <<"[">>)
           THEN [errors |-> validateTag(errs, line, n), inHeader |-> TRUE]
      ELSE IF inH /\ ~HasPrefix(line, <<"[">>)
           THEN [errors |-> validateMoves(errs, line, n), inHeader |-> FALSE]
      ELSE IF ~inH
           THEN [errors |-> validateMoves(errs, line, n), inHeader |-> inH]
      ELSE [errors |-> errs, inHeader |-> inH]

\* CorrectLine correcting the Date tag only, not EventDate
CorrectLineDateOnly(inH, line) ==
  LET trimmed == TrimSpace(line)
      isTag == HasPrefix(trimmed, <<"[">>)
      matches == tagPattern(trimmed)
      tagNameLower == ToLower(matches[2])
      fixed == tryFixDate(matches[3])
      afterTag ==
        IF isTag /\ matches # <<>> /\ tagNameLower = NameDate /\ fixed.ok
        THEN <<"[">> \o matches[2] \o <<" ", "\"">> \o fixed.date \o <<"\"", "]">>
        ELSE line
      inH2 == IF isTag THEN TRUE
              ELSE IF trimmed # <<>> /\ inH THEN FALSE
              ELSE inH
  IN  [line |-> IF ~inH2 /\ trimmed # <<>>
                THEN fixBalancedDelimiters(afterTag)
                ELSE afterTag,
       inHeader |-> inH2]

\* one turn of WriteCorrectedFile's loop: the line to write and inHeader after it
CorrectLine(inH, line) ==
  LET trimmed == TrimSpace(line)
      isTag == HasPrefix(trimmed, <<"[">>)
      matches == tagPattern(trimmed)
      tagNameLower == ToLower(matches[2])
      fixed == tryFixDate(matches[3])
      afterTag ==
        IF /\ isTag
           /\ matches # <<>>
           /\ (tagNameLower = NameDate \/ tagNameLower = NameEventDate)
           /\ fixed.ok
        THEN <<"[">> \o matches[2] \o <<" ", "\"">> \o fixed.date \o <<"\"", "]">>
        ELSE line
      inH2 == IF isTag THEN TRUE
              ELSE IF trimmed # <<>> /\ inH THEN FALSE
              ELSE inH
  IN  [line |-> IF ~inH2 /\ trimmed # <<>>
                THEN fixBalancedDelimiters(afterTag)
                ELSE afterTag,
       inHeader |-> inH2]

\* main: os.Stat says the file does not exist, log.Fatalf
MainNotFound ==
  /\ pc = "main"
  /\ pc' = "exit"
  /\ exitCode' = 1
  /\ UNCHANGED <<file, outputFile, vVars, wVars, printed, cVars>>

\* ValidateOpen going on with the list the instance already holds, in the
\* same backing array
ValidateOpenKeepsIssues ==
  /\ pc = "main"
  /\ \/ /\ pc' = "v_stat"
        /\ errors' = errors
     \/ /\ pc' = "v_done"
        /\ errors' = Append(errors,
                       ValidationError(0, Sprintf("Cannot open file: %v", <<ErrText>>)))
  /\ UNCHANGED <<file, outputFile, lineNumber, inHeader, wVars, mVars, cVars>>

\* ValidateFile is called: it points v.errors to a new, empty array (make)
\* and opens the file
ValidateOpen ==
  /\ pc = "main"
  /\ arr' = arr + 1
  /\ \/ /\ pc' = "v_stat"
        /\ errors' = <<>>
     \/ /\ pc' = "v_done"
        /\ errors' = <<ValidationError(0, Sprintf("Cannot open file: %v", <<ErrText>>))>>
  /\ UNCHANGED <<file, outputFile, lineNumber, inHeader, wVars, mVars, held>>

ValidateStat ==
  /\ pc = "v_stat"
  /\ \/ /\ pc' = "v_scan"
        /\ lineNumber' = 0
        /\ inHeader' = TRUE
        /\ UNCHANGED errors
     \/ /\ pc' = "v_done"
        /\ errors' = Append(errors,
                       ValidationError(0, Sprintf("Cannot get file info: %v", <<ErrText>>)))
        /\ UNCHANGED <<lineNumber, inHeader>>
  /\ UNCHANGED <<file, outputFile, wVars, mVars, cVars>>

\* ValidateScanLine checking a movetext line together with the movetext line
\* before it, delimiters carried over from line to line
ValidateScanLineJoined ==
  /\ pc = "v_scan"
  /\ lineNumber < Len(file)
  /\ LET cur == file[lineNumber + 1]
         carried ==
           IF /\ lineNumber >= 1
              /\ ~inHeader
              /\ TrimSpace(cur) # <<>>
              /\ ~HasPrefix(TrimSpace(cur), <<"[">>)
           THEN file[lineNumber] \o <<" ">> \o cur
           ELSE cur
         r == ValidateLine(errors, inHeader, carried, lineNumber + 1)
     IN  /\ lineNumber' = lineNumber + 1
         /\ errors' = r.errors
         /\ inHeader' = r.inHeader
  /\ UNCHANGED <<file, outputFile, pc, wVars, mVars, cVars>>

\* ValidateScanLine expecting the first move number of a movetext line to
\* follow the last number of the movetext line before it
ValidateScanLineCarriesNumber ==
  /\ pc = "v_scan"
  /\ lineNumber < Len(file)
  /\ LET cur == TrimSpace(file[lineNumber + 1])
         r == ValidateLine(errors, inHeader, file[lineNumber + 1], lineNumber + 1)
         before ==
           IF lineNumber >= 1 /\ ~inHeader
           THEN movePattern(removeVariations(removeComments(TrimSpace(file[lineNumber]))))
           ELSE <<>>
         here ==
           IF cur # <<>> /\ ~HasPrefix(cur, <<"[">>)
           THEN movePattern(removeVariations(removeComments(cur)))
           ELSE <<>>
         expected == Atoi(before[Len(before)][2]) + 1
         found == Atoi(here[1][2])
     IN  /\ lineNumber' = lineNumber + 1
         /\ errors' = IF before # <<>> /\ here # <<>> /\ found # expected
                      THEN Append(r.errors,
                                  ValidationError(lineNumber + 1,
                                    Sprintf(FmtOutOfSequence,
                                            <<Itoa(expected), Itoa(found)>>)))
                      ELSE r.errors
         /\ inHeader' = r.inHeader
  /\ UNCHANGED <<file, outputFile, pc, wVars, mVars, cVars>>

\* scanner.Scan() hands out the next line
ValidateScanLine ==
  /\ pc = "v_scan"
  /\ lineNumber < Len(file)
  /\ LET r == ValidateLine(errors, inHeader, file[lineNumber + 1], lineNumber + 1)
     IN  /\ lineNumber' = lineNumber + 1
         /\ errors' = r.errors
         /\ inHeader' = r.inHeader
  /\ UNCHANGED <<file, outputFile, pc, wVars, mVars, cVars>>

\* scanner.Scan() is false at the end of the file, scanner.Err() is nil
ValidateEOF ==
  /\ pc = "v_scan"
  /\ lineNumber = Len(file)
  /\ pc' = "v_done"
  /\ UNCHANGED <<file, outputFile, vVars, wVars, mVars, cVars>>

\* ValidateReadError reporting the failure as a file-level issue, at line 0
ValidateReadErrorLine0 ==
  /\ pc = "v_scan"
  /\ lineNumber <= Len(file)
  /\ pc' = "v_done"
  /\ errors' = Append(errors,
                 ValidationError(0, Sprintf("Error reading file: %v", <<ErrText>>)))
  /\ UNCHANGED <<file, outputFile, lineNumber, inHeader, wVars, mVars, cVars>>

\* ValidateReadError returning the failure alone, as one file-level issue
ValidateReadErrorAlone ==
  /\ pc = "v_scan"
  /\ lineNumber <= Len(file)
  /\ pc' = "v_done"
  /\ errors' = <<ValidationError(0, Sprintf("Error reading file: %v", <<ErrText>>))>>
  /\ UNCHANGED <<file, outputFile, lineNumber, inHeader, wVars, mVars, cVars>>

\* scanner.Scan() is false because reading failed
ValidateReadError ==
  /\ pc = "v_scan"
  /\ lineNumber <= Len(file)
  /\ pc' = "v_done"
  /\ errors' = Append(errors,
                 ValidationError(lineNumber,
                                 Sprintf("Error reading file: %v", <<ErrText>>)))
  /\ UNCHANGED <<file, outputFile, lineNumber, inHeader, wVars, mVars, cVars>>

\* main after ValidateFile: with -o it calls WriteCorrectedFile
MainAfterValidate ==
  /\ pc = "v_done"
  /\ pc' = IF outputFile THEN "w_open" ELSE "report"
  /\ UNCHANGED <<file, outputFile, vVars, wVars, mVars, cVars>>

WriteFail(why) ==
  /\ pc' = "w_done"
  /\ wErr' = why
  /\ UNCHANGED <<lineCount, wInHeader, out>>

WriteOpen ==
  /\ pc = "w_open"
  /\ \/ pc' = "w_stat" /\ UNCHANGED wVars
     \/ WriteFail("cannot open input file")
  /\ UNCHANGED <<file, outputFile, vVars, mVars, cVars>>

WriteStat ==
  /\ pc = "w_stat"
  /\ \/ pc' = "w_create" /\ UNCHANGED wVars
     \/ WriteFail("cannot get file info")
  /\ UNCHANGED <<file, outputFile, vVars, mVars, cVars>>

WriteCreate ==
  /\ pc = "w_create"
  /\ \/ /\ pc' = "w_scan"
        /\ lineCount' = 0
        /\ wInHeader' = TRUE
        /\ out' = <<>>
        /\ UNCHANGED wErr
     \/ WriteFail("cannot create output file")
  /\ UNCHANGED <<file, outputFile, vVars, mVars, cVars>>

\* WriteScanLine skipping blank lines, as ValidateFile's loop does
WriteScanLineSkipsBlank ==
  /\ pc = "w_scan"
  /\ lineCount < Len(file)
  /\ LET r == CorrectLine(wInHeader, file[lineCount + 1])
     IN  /\ lineCount' = lineCount + 1
         /\ wInHeader' = r.inHeader
         /\ out' = IF TrimSpace(file[lineCount + 1]) = <<>> THEN out
                   ELSE Append(out, r.line \o <<"\n">>)
  /\ UNCHANGED <<file, outputFile, pc, wErr, vVars, mVars, cVars>>

\* scanner.Scan() hands out the next line and writer.WriteString succeeds
WriteScanLine ==
  /\ pc = "w_scan"
  /\ lineCount < Len(file)
  /\ LET r == CorrectLine(wInHeader, file[lineCount + 1])
     IN  /\ lineCount' = lineCount + 1
         /\ wInHeader' = r.inHeader
         /\ out' = Append(out, r.line \o <<"\n">>)
  /\ UNCHANGED <<file, outputFile, pc, wErr, vVars, mVars, cVars>>

\* writer.WriteString fails: the line is read and counted, nothing is written
WriteWriteError ==
  /\ pc = "w_scan"
  /\ lineCount < Len(file)
  /\ LET r == CorrectLine(wInHeader, file[lineCount + 1])
     IN  /\ lineCount' = lineCount + 1
         /\ wInHeader' = r.inHeader
  /\ pc' = "w_done"
  /\ wErr' = "error writing"
  /\ UNCHANGED <<file, outputFile, out, vVars, mVars, cVars>>

WriteEOF ==
  /\ pc = "w_scan"
  /\ lineCount = Len(file)
  /\ pc' = "w_done"
  /\ wErr' = ""
  /\ UNCHANGED <<file, outputFile, lineCount, wInHeader, out, vVars, mVars, cVars>>

WriteReadError ==
  /\ pc = "w_scan"
  /\ lineCount <= Len(file)
  /\ WriteFail("error reading")
  /\ UNCHANGED <<file, outputFile, vVars, mVars, cVars>>

\* main after WriteCorrectedFile: log.Fatalf on an error
MainAfterWrite ==
  /\ pc = "w_done"
  /\ IF wErr # ""
     THEN pc' = "exit" /\ exitCode' = 1
     ELSE pc' = "report" /\ UNCHANGED exitCode
  /\ UNCHANGED <<file, outputFile, vVars, wVars, printed, cVars>>

\* MainReport taking a list of nothing but "Date auto-corrected" notices for
\* a valid file
MainReportNoticesPass ==
  /\ pc = "report"
  /\ pc' = "exit"
  /\ printed' = errors
  /\ exitCode' = IF \A i \in 1..Len(errors) : errors[i].Message.fmt = FmtDateCorrected
                 THEN 0 ELSE 1
  /\ UNCHANGED <<file, outputFile, vVars, wVars, cVars>>

\* main prints the issues and exits
MainReport ==
  /\ pc = "report"
  /\ pc' = "exit"
  /\ printed' = errors
  /\ exitCode' = IF Len(errors) = 0 THEN 0 ELSE 1
  /\ UNCHANGED <<file, outputFile, vVars, wVars, cVars>>

Next ==
  \/ MainNotFound
  \/ ValidateOpen
  \/ ValidateStat
  \/ ValidateScanLine
  \/ ValidateEOF
  \/ ValidateReadError
  \/ MainAfterValidate
  \/ WriteOpen
  \/ WriteStat
  \/ WriteCreate
  \/ WriteScanLine
  \/ WriteWriteError
  \/ WriteEOF
  \/ WriteReadError
  \/ MainAfterWrite
  \/ MainReport

(***************************************************************************)
(* The input files.                                                        *)
(***************************************************************************)
StrEvent == <<"E", "v", "e", "n", "t">>

StrDate == <<"D", "a", "t", "e">>

StrEventDate == <<"E", "v", "e", "n", "t", "D", "a", "t", "e">>

StrDATE == <<"D", "A", "T", "E">>

StrResult == <<"R", "e", "s", "u", "l", "t">>

StrWhite == <<"W", "h", "i", "t", "e">>

StrCorrectDate == <<"2", "0", "2", "4", ".", "0", "1", ".", "1", "5">>

StrISODate == <<"2", "0", "2", "4", "-", "0", "1", "-", "1", "5">>

StrDMYDate == <<"1", "5", "/", "0", "1", "/", "2", "0", "2", "4">>

StrNoSepDate == <<" ", "2", "0", "2", "4", "0", "1", "1", "5", " ">>

StrWildcardDate == <<"?", "?", "?", "?", ".", "?", "?", ".", "?", "?">>

StrWhiteWins == <<"1", "-", "0">>

StrBlackWins == <<"0", "-", "1">>

StrDraw == <<"1", "/", "2", "-", "1", "/", "2">>

StrUnknown == <<"*">>

LineMalformed ==
  <<"[", "D", "a", "t", "e", " ", "2", "0", "2", "4", ".", "0", "1", ".",
    "1", "5", "]">>

LineMoves ==
  <<"1", ".", " ", "e", "4", " ", "e", "5", " ", "2", ".", " ", "N", "f",
    "3", " ", "N", "c", "6">>

LineMovesEnd ==
  <<"3", ".", " ", "B", "b", "5", " ", "a", "6", " ", "1", "-", "0">>

LineOpenVariation ==
  <<"1", ".", " ", "e", "4", " ", "(", "1", ".", " ", "d", "4", " ", "{",
    "b", "e", "s", "t">>

LineCloseVariation == <<" ", "d", "5", ")", " ", "e", "5", " ", "}">>

LineBadMoves ==
  <<"1", ".", " ", "e", "4", " ", "e", "5", " ", "3", ".", " ", "X", "e",
    "1", " ", "b", "9", " ", "$", "1">>

\* the tag line [name "value"]
Tag(name, value) == <<"[">> \o name \o <<" ", "\"">> \o value \o <<"\"", "]">>

\* the lines the files of Spec are made of
LinePool ==
  { <<>>,
    <<" ", "\t">>,
    Tag(StrEvent, <<"x">>),
    Tag(StrDate, StrCorrectDate),
    Tag(StrDate, StrISODate),
    Tag(StrEventDate, StrDMYDate),
    <<" ">> \o Tag(StrDATE, StrNoSepDate) \o <<" ">>,
    Tag(StrDate, <<"x">>),
    Tag(StrResult, StrDraw),
    Tag(StrResult, <<>>),
    LineMalformed,
    LineMoves,
    LineMovesEnd,
    LineOpenVariation,
    LineCloseVariation,
    LineBadMoves }

MaxLines == 2

RECURSIVE SeqsUpTo(_, _)
SeqsUpTo(S, n) ==
  IF n = 0 THEN {<<>>}
  ELSE LET shorter == SeqsUpTo(S, n - 1)
       IN  shorter \cup {Append(f, l) : f \in {g \in shorter : Len(g) = n - 1}, l \in S}

Files == SeqsUpTo(LinePool, MaxLines)

InitRun ==
  /\ outputFile \in BOOLEAN
  /\ pc = "main"
  /\ errors = <<>>
  /\ lineNumber = 0
  /\ inHeader = TRUE
  /\ lineCount = 0
  /\ wInHeader = TRUE
  /\ out = <<>>
  /\ wErr = ""
  /\ printed = <<>>
  /\ exitCode = -1
  /\ arr = 0
  /\ held = <<>>

Init == file \in Files /\ InitRun

Spec == Init /\ [][Next]_vars

\* the digit groups and separators the date values of SpecLine are built from
DateTokens ==
  { <<"2", "0", "2", "4">>,
    <<"0", "1">>,
    <<"1", "5">>,
    <<"7">> }

DateSeps == { <<"-">>, <<"/">>, <<".">>, <<>> }

DateValues ==
  { pad \o t1 \o s1 \o t2 \o s2 \o t3 \o pad :
      t1 \in DateTokens, t2 \in DateTokens, t3 \in DateTokens,
      s1 \in DateSeps, s2 \in DateSeps, pad \in {<<>>, <<" ">>} }

PlainDateValues ==
  { t1 \o s \o t2 \o s \o t3 :
      t1 \in DateTokens, t2 \in DateTokens, t3 \in DateTokens, s \in DateSeps }

WildcardValues ==
  { <<"?", "?", "?", "?", ".", "?", "?", ".", "?", "?">>,
    <<"?", "?", "?", ".", "?", "?", ".", "?", "?">>,
    <<"?", "?", "?", "?", ".", "?", "?", ".", "?">>,
    <<"?", "?", "?", "?", "-", "?", "?", "-", "?", "?">>,
    <<" ", "?", "?", "?", "?", ".", "?", "?", ".", "?", "?">>,
    <<"?", "?", "?", "?", ".", "?", "?", ".", "?", "?", " ">>,
    <<"?", "?", "?", "?", ".", "0", "1", ".", "1", "5">>,
    <<"?", "?", "?", "?", "?", "?", "?", "?">> }

ResultValues ==
  { <<"1", "-", "0">>,
    <<"0", "-", "1">>,
    <<"1", "/", "2", "-", "1", "/", "2">>,
    <<"*">>,
    <<>>,
    <<" ", "1", "-", "0">>,
    <<"1", "-", "0", " ">>,
    <<"\t", "*">>,
    <<"1", "/", "2">>,
    <<"0", "-", "0">>,
    <<"1", "-", "0", "-", "1">>,
    <<"*", "*">>,
    <<"1", "/", "2", "-", "1", "/", "2", " ", "1", "-", "0">>,
    <<"2", "-", "0">>,
    <<"1", " ", "-", " ", "0">>,
    <<"1", "-", "O">> }

\* lines that start with "[" and are no tags
MalformedLines ==
  { <<"[">>,
    <<"[", "]">>,
    <<"[", "D", "a", "t", "e", "]">>,
    <<"[", "D", "a", "t", "e", " ", "2", "0", "2", "4", ".", "0", "1", ".", "1", "5", "]">>,
    <<"[", "D", "a", "t", "e", " ", "\"", "2", "0", "2", "4", "-", "0", "1", "-", "1", "5", "\"">>,
    <<"[", "D", "a", "t", "e", "\"", "2", "0", "2", "4", "-", "0", "1", "-", "1", "5", "\"", "]">>,
    <<"[", " ", "D", "a", "t", "e", " ", "\"", "2", "0", "2", "4", "-", "0", "1", "-", "1", "5", "\"", "]">>,
    <<"[", "D", "a", "-", "t", "e", " ", "\"", "2", "0", "2", "4", "-", "0", "1", "-", "1", "5", "\"", "]">>,
    <<"[", "D", "a", "t", "e", " ", "\"", "2", "0", "2", "4", "-", "0", "1", "-", "1", "5", "\"", "]", " ", "x">>,
    <<"[", "D", "a", "t", "e", " ", "'", "2", "0", "2", "4", "-", "0", "1", "-", "1", "5", "'", "]">>,
    <<"[", "\"", "1", "-", "0", "\"", "]">>,
    <<"[", "R", "e", "s", "u", "l", "t", " ", "\"", "1", "-", "0", "\"", " ", "]">>,
    <<"[", "R", "e", "s", "u", "l", "t", " ", "\"", "]">>,
    <<"[", "R", "e", "s", "u", "l", "t", " ", "1", "-", "0", "\"", "]">>,
    <<"[", "[", "R", "e", "s", "u", "l", "t", " ", "\"", "1", "-", "0", "\"", "]", "]">>,
    <<"[", "R", "e", "s", "u", "l", "t", "\t">> }

\* blank and movetext lines
OtherLines ==
  { <<>>,
    <<" ", "\t">>,
    <<"1", ".", " ", "e", "4", " ", "e", "5", " ", "2", ".", " ", "N", "f", "3", " ", "N", "c", "6">>,
    <<"1", ".", " ", "e", "4", " ", "(", "1", ".", " ", "d", "4", " ", "{", "b", "e", "s", "t">>,
    <<"1", ".", " ", "e", "4", " ", "e", "5", " ", "3", ".", " ", "X", "e", "1", " ", "b", "9", " ", "$", "1">>,
    <<"D", "a", "t", "e", " ", "\"", "2", "0", "2", "4", "-", "0", "1", "-", "1", "5", "\"", "]">> }

Pads == { <<<<>>, <<>>>>, <<<<" ">>, <<>>>>, <<<<>>, <<"\t">>>>, <<<<" ">>, <<" ">>>> }

\* tag names that are none of Date, EventDate and Result
OtherNames ==
  { <<"U", "T", "C", "D", "a", "t", "e">>,
    <<"D", "a", "t", "e", "s">>,
    <<"D", "a", "t", "e", "_">>,
    <<"E", "v", "e", "n", "t", "_", "D", "a", "t", "e">>,
    <<"R", "e", "s", "u", "l", "t", "s">>,
    <<"R", "e", "s", "u", "l", "t", "1">>,
    <<"D">> }

StrEventDateMixed == <<"e", "V", "E", "N", "T", "d", "A", "T", "e">>

OtherNameValues ==
  { StrISODate, StrCorrectDate, StrDMYDate, <<"x">>, <<>>, <<"2", "-", "0">>,
    StrWhiteWins }

\* a closing delimiter that closes nothing, and a date tag after it
CloserBeforeTag ==
  { c \o Tag(StrDate, v) : c \in {<<")">>, <<"}">>, <<" ", ")", " ">>},
                            v \in {StrISODate, StrCorrectDate} }

\* the lines the one-line files of SpecLine hold
BigLinePool ==
  { Tag(StrDate, v) : v \in DateValues \cup WildcardValues }
    \cup { Tag(n, v) : n \in {StrEventDate, StrDATE}, v \in PlainDateValues }
    \cup { Tag(StrEventDate, v) : v \in WildcardValues }
    \cup { pad[1] \o Tag(StrDate, v) \o pad[2] :
             pad \in Pads, v \in {StrCorrectDate, StrISODate, StrWildcardDate} }
    \cup { pad[1] \o Tag(n, v) \o pad[2] :
             pad \in Pads, n \in {StrResult, <<"r", "E", "S", "U", "L", "T">>},
             v \in ResultValues }
    \cup { Tag(n, v) : n \in {StrEvent, StrWhite}, v \in ResultValues \cup WildcardValues }
    \cup { Tag(n, v) : n \in OtherNames, v \in OtherNameValues }
    \cup { Tag(StrEventDateMixed, v) : v \in OtherNameValues }
    \cup { pad[1] \o l \o pad[2] : pad \in Pads, l \in MalformedLines }
    \cup OtherLines
    \cup CloserBeforeTag

\* the lines that may follow the first line of a file of SpecLine
FollowLines == { Tag(StrDate, StrISODate), LineBadMoves }

LineFiles ==
  { <<l>> : l \in BigLinePool }
    \cup { <<l, f>> : l \in MalformedLines \cup {<<>>}, f \in FollowLines }

InitLine == file \in LineFiles /\ InitRun /\ outputFile

SpecLine == InitLine /\ [][Next]_vars

\* moves of the move-token grammar, as the first group of a movetext line
FirstMoves ==
  { <<"e", "4">>,
    <<"N", "f", "3">>,
    <<"O", "-", "O">>,
    <<"O", "-", "O", "-", "O">>,
    <<"e", "8", "=", "Q">>,
    <<"e", "x", "d", "5">>,
    <<"Q", "h", "5", "+">>,
    <<"Q", "h", "4", "#">>,
    <<"N", "b", "d", "7">>,
    <<"R", "1", "c", "3">>,
    <<"Q", "h", "4", "x", "e", "1">>,
    <<"d", "e", "8", "=", "N", "#">>,
    <<"0", "-", "0", "-", "0", "+">>,
    <<"K", "x", "e", "1", "!", "?">>,
    <<"a", "1", "?", "?">> }

Replies ==
  { <<"e", "5">>,
    <<"B", "x", "h", "7", "+", "!">> }

LaterGroups ==
  { <<<<"N", "f", "3">>, <<"N", "c", "6">>>>,
    <<<<"O", "-", "O">>, <<"b", "1", "=", "R", "#">>>> }

\* "<n>. <white> <black>"
Group(n, white, black) == Itoa(n) \o <<".", " ">> \o white \o <<" ">> \o black

MaxGroups == 2

\* the lines of g consecutively numbered groups, the first one numbered n
RECURSIVE GroupLines(_, _)
GroupLines(n, g) ==
  IF g = 1 THEN { Group(n, w, b) : w \in FirstMoves, b \in Replies }
  ELSE { l \o <<" ">> \o Group(n + g - 1, p[1], p[2]) :
           l \in GroupLines(n, g - 1), p \in LaterGroups }

GoodMoveLines ==
  { l \o r : l \in UNION { GroupLines(n, g) : n \in {1, 9}, g \in 1..MaxGroups },
             r \in { <<>>, <<" ">> \o StrDraw } }

GoodHeaders ==
  { <<>>,
    << Tag(StrEvent, <<"x">>), Tag(StrDate, StrCorrectDate),
       Tag(StrResult, StrWhiteWins), <<>> >>,
    << <<" ">> \o Tag(StrEventDate, StrWildcardDate), Tag(StrDATE, <<"2", "0", "2", "4", ".", "1", "3", ".", "4", "0">>),
       Tag(<<"r", "e", "s", "u", "l", "t">>, StrUnknown) \o <<" ">> >> }

GoodTails ==
  { <<>>,
    << <<" ", "\t">>, Tag(StrResult, StrDraw), LineMovesEnd >> }

\* well-formed files: a header, a movetext line, and perhaps a second game
GoodFiles ==
  { h \o <<l>> \o t : h \in GoodHeaders, l \in GoodMoveLines, t \in GoodTails }

InitGame == file \in GoodFiles /\ InitRun /\ outputFile

SpecGame == InitGame /\ [][Next]_vars

(***************************************************************************)
(* Movetext lines: delimiters, move numbers, move tokens, characters.      *)
(***************************************************************************)
DelimChars == {"(", ")", "{", "}", "a"}

MaxDelims == 4

\* every line of one to MaxDelims delimiter characters and letters "a"
DelimLines == SeqsUpTo(DelimChars, MaxDelims) \ {<<>>}

DelimFiles == { <<l>> : l \in DelimLines }

InitDelim == file \in DelimFiles /\ InitRun /\ outputFile

SpecDelim == InitDelim /\ [][Next]_vars

MoveNumbers == {0, 1, 2, 3, 10, 11}

MaxNumbers == 3

\* the lines of g groups "<n>. e4 e5", each n a number of MoveNumbers
RECURSIVE NumberLinesOf(_)
NumberLinesOf(g) ==
  IF g = 1 THEN { Group(n, <<"e", "4">>, <<"e", "5">>) : n \in MoveNumbers }
  ELSE { l \o <<" ">> \o Group(n, <<"N", "f", "3">>, <<"N", "c", "6">>) :
           l \in NumberLinesOf(g - 1), n \in MoveNumbers }

\* numbers inside comments and variations, a group without a reply, leading
\* zeros
NumberLinesExtra ==
  { <<"1", ".", " ", "e", "4", " ", "e", "5", " ", "(", "1", ".", ".", ".", " ", "c", "5", " ", "5", ".", " ", "x", ")", " ", "2", ".", " ", "N", "f", "3">>,
    <<"1", ".", " ", "e", "4", " ", "{", "7", ".", " ", "x", "}", " ", "e", "5", " ", "3", ".", " ", "N", "f", "3">>,
    <<"1", ".", " ", "e", "4", " ", "2", ".", " ", "d", "4", " ", "d", "5">>,
    <<"0", "1", ".", " ", "e", "4", " ", "e", "5", " ", "0", "2", ".", " ", "N", "f", "3">>,
    <<"0", ".", " ", "e", "4", " ", "e", "5", " ", "0", ".", " ", "d", "4", " ", "d", "5", " ", "1", ".", " ", "c", "4">>,
    <<"1", ".", " ", "e", "4", " ", "e", "5", " ", "0", ".", " ", "d", "4", " ", "d", "5", " ", "7", ".", " ", "c", "4">>,
    <<"1", ".", "e", "4", " ", "e", "5", " ", "2", ".", "N", "f", "3", " ", "4", ".", "d", "4">>,
    <<"3", ".", " ", "e", "4", " ", "e", "5", " ", "(", "2", ".", " ", "d", "4", " ", "{", "9", ".", " ", "x", "}", ")", " ", "4", ".", " ", "N", "f", "3", " ", "6", ".", " ", "d", "4">>,
    <<"0", "0", ".", " ", "e", "4", " ", "e", "5", " ", "5", ".", " ", "d", "4">> }

NumberLines ==
  UNION { NumberLinesOf(g) : g \in 1..MaxNumbers } \cup NumberLinesExtra

\* the parts move tokens are put together from
TokLead == { <<>>, <<"N">>, <<"K">>, <<"X">> }

TokFile == { <<>>, <<"a">>, <<"i">> }

TokRank == { <<>>, <<"1">>, <<"9">> }

TokCapture == { <<>>, <<"x">> }

TokDestFile == { <<>>, <<"d">>, <<"j">> }

TokDestRank == { <<>>, <<"5">>, <<"9">> }

TokPromotion == { <<>>, <<"=", "Q">>, <<"=", "K">> }

TokSuffix == { <<>>, <<"+">>, <<"#", "!">>, <<"!", "+">> }

BuiltTokens ==
  { l \o f \o r \o x \o df \o dr \o pr \o sf :
      l \in TokLead, f \in TokFile, r \in TokRank, x \in TokCapture,
      df \in TokDestFile, dr \in TokDestRank, pr \in TokPromotion,
      sf \in TokSuffix } \ {<<>>}

SpecialTokens ==
  { <<"O", "-", "O">>,
    <<"O", "-", "O", "-", "O">>,
    <<"0", "-", "0">>,
    <<"0", "-", "0", "-", "0">>,
    <<"1", "-", "0">>,
    <<"0", "-", "1">>,
    <<"1", "/", "2", "-", "1", "/", "2">>,
    <<"*">>,
    <<"o", "-", "o">>,
    <<"O", "-", "O", "-", "O", "-", "O">>,
    <<"0", "-", "O">>,
    <<"O", "-", "0">>,
    <<"1", "-", "1">>,
    <<"1", "/", "2">>,
    <<"*", "*">>,
    <<"1", "/", "2", "-", "1", "/", "2", "-", "1", "/", "2">>,
    <<"-">>,
    <<"0">> }

SpecialSuffix == { <<>>, <<"+">>, <<"!">>, <<"#", "?">>, <<"?", "+">> }

ListedTokens ==
  { <<"e", "4">>,
    <<"N", "f", "3">>,
    <<"O", "-", "O">>,
    <<"O", "-", "O", "-", "O">>,
    <<"e", "8", "=", "Q">>,
    <<"e", "x", "d", "5">>,
    <<"Q", "h", "5", "+">>,
    <<"Q", "h", "4", "#">>,
    <<"N", "b", "d", "7">>,
    <<"R", "1", "c", "3">>,
    <<"X", "e", "1">>,
    <<"b", "9">>,
    <<"Q", "j", "5">>,
    <<"B", "x", "e", "5">>,
    <<"R", "a", "x", "b", "1">>,
    <<"Q", "h", "4", "e", "1">>,
    <<"e", "x", "d", "8", "=", "R">>,
    <<"e", "e", "4">>,
    <<"e", "8", "Q">>,
    <<"K", "e">>,
    <<"N">>,
    <<"x">>,
    <<"e">>,
    <<"4">>,
    <<"e", "4", "e", "5">>,
    <<"N", "f", "3", "+", "#", "!", "?">>,
    <<"e", "4", "+", "?", "+">>,
    <<"=", "Q">>,
    <<"a", "1", "=">>,
    <<"N", "x", "x">>,
    <<"B", "b", "5", "!">>,
    <<"R", "d", "1", "?", "?">> }

SuffixedTokens == { t \o sf : t \in SpecialTokens, sf \in SpecialSuffix }

Tokens == BuiltTokens \cup SuffixedTokens \cup ListedTokens

\* "1. <token>" and "1. e4 <token>"
TokenLines ==
  { <<"1", ".", " ">> \o t : t \in Tokens }
    \cup { <<"1", ".", " ", "e", "4", " ">> \o t : t \in SuffixedTokens \cup ListedTokens }

Insert(s, i, c) == SubSeq(s, 1, i) \o <<c>> \o SubSeq(s, i + 1, Len(s))

CharBases ==
  { <<"1", ".", " ", "e", "4", " ", "e", "5">>,
    <<"1", ".", " ", "e", "4", " ", "{", "a", "}", " ", "(", "1", ".", " ", "d", "4", ")">>,
    <<"1", ".", " ", "e", "4", " ", "(", "1", ".", " ", "d", "4", " ", "{", "a">>,
    <<"1", ".", " ", "e", "4", " ", "e", "5", " ", "3", ".", " ", "X", "e", "1">>,
    <<"1", ".", " ", "e", "4", " ", "$", "1", " ", "e", "5">> }

CharInserted == {"$", ",", "[", "]", "_", ":", "\"", "'", "x", "\t", "=", "/"}

\* a line of CharBases with one more character somewhere in it
CharLines ==
  CharBases
    \cup UNION { { Insert(b, i, c) : i \in 0..Len(b), c \in CharInserted } : b \in CharBases }

MoveFiles == { <<l>> : l \in NumberLines \cup TokenLines \cup CharLines }

InitMoves == file \in MoveFiles /\ InitRun /\ outputFile

SpecMoves == InitMoves /\ [][Next]_vars

(***************************************************************************)
(* Movetext lines with comments and variations: the move 1. e4 followed by *)
(* braces, parentheses, a token that is no move and a move number out of   *)
(* sequence.                                                               *)
(***************************************************************************)
SpanPieces ==
  { <<"{">>, <<"}">>, <<"(">>, <<")">>,
    <<"X", "e", "1", " ">>,
    <<"7", ".", " ", "d", "4", " ">> }

MaxPieces == 4

RECURSIVE Concat(_)
Concat(pieces) == IF pieces = <<>> THEN <<>> ELSE Head(pieces) \o Concat(Tail(pieces))

SpanLines ==
  { <<"1", ".", " ", "e", "4", " ">> \o Concat(pieces) :
      pieces \in SeqsUpTo(SpanPieces, MaxPieces) }

SpanFiles == { <<l>> : l \in SpanLines }

InitSpans == file \in SpanFiles /\ InitRun /\ outputFile

SpecSpans == InitSpans /\ [][Next]_vars

(***************************************************************************)
(* One instance, several calls: a caller keeps the list ValidateFile       *)
(* returned and calls ValidateFile again on the same PGNValidator.         *)
(***************************************************************************)
MaxCalls == 2

ReuseLines == { Tag(StrDate, <<"x">>), LineBadMoves }

\* the empty file, the files of one line and one file of two lines
ReuseFiles ==
  {<<>>} \cup {<<l>> : l \in ReuseLines} \cup {<<Tag(StrDate, <<"x">>), LineBadMoves>>}

\* the caller keeps the slice the call returned (v.errors: the array and what
\* it holds) and calls ValidateFile with another file
ValidateAgain ==
  /\ pc \in {"v_done", "w_done"}
  /\ Len(held) + 1 < MaxCalls
  /\ held' = Append(held, [arr |-> arr, list |-> errors, file |-> file])
  /\ file' \in ReuseFiles
  /\ pc' = "main"
  /\ UNCHANGED <<outputFile, vVars, wVars, mVars, arr>>

NextReuse == Next \/ ValidateAgain

InitReuse == file \in ReuseFiles /\ InitRun

SpecReuse == InitReuse /\ [][NextReuse]_vars

(***************************************************************************)
(* Properties.                                                             *)
(***************************************************************************)
IsBlank(l) == TrimSpace(l) = <<>>

IsTagLine(l) == ~IsBlank(l) /\ Head(TrimSpace(l)) = "["

IsMoveLine(l) == ~IsBlank(l) /\ Head(TrimSpace(l)) # "["

Nl(l) == l \o <<"\n">>

IsPrefix(s, t) == Len(s) <= Len(t) /\ SubSeq(t, 1, Len(s)) = s

NonDecreasing(errs) == \A i \in 1..(Len(errs) - 1) : errs[i].Line <= errs[i + 1].Line

\* the issues reported at line k, in order
RECURSIVE IssuesAt(_, _)
IssuesAt(errs, k) ==
  IF errs = <<>> THEN <<>>
  ELSE (IF Head(errs).Line = k THEN <<Head(errs)>> ELSE <<>>) \o IssuesAt(Tail(errs), k)

IOFormats ==
  {"Cannot open file: %v", "Cannot get file info: %v", "Error reading file: %v"}

IOFailed == \E i \in 1..Len(errors) : errors[i].Message.fmt \in IOFormats

\* ValidateFile has returned after reading the whole file
ValidateCompleted ==
  pc \notin {"main", "v_stat", "v_scan"} /\ lineNumber = Len(file) /\ ~IOFailed

\* WriteCorrectedFile has returned nil
WriteCompleted == pc \in {"w_done", "report", "exit"} /\ lineCount = Len(file) /\ wErr = ""
                    /\ Len(out) = Len(file)

\* a step of ValidateFile's loop that reads a line
ScanStep == pc = "v_scan" /\ pc' = "v_scan" /\ lineNumber' = lineNumber + 1

\* C1 as stated: during one scan inHeader, once false, never becomes true again.
C1_Monotonic == [][~inHeader => ~inHeader']_vars

\* C1, amended: inHeader starts true and changes only when the scan reads a
\* line: a blank line leaves it as it is, a line starting with "[" sets it true
\* (also after movetext, the header of the next game), any other line sets it
\* false.
C1_InHeaderFollowsLine ==
  /\ pc = "main" => inHeader
  /\ [][IF ScanStep
        THEN LET l == file[lineNumber']
             IN  inHeader' = (IF IsBlank(l) THEN inHeader ELSE IsTagLine(l))
        ELSE inHeader' = inHeader]_vars

\* a tag line read after a movetext line: inHeader is true again
C1_Witness ==
  /\ pc = "v_scan"
  /\ lineNumber = 2
  /\ IsMoveLine(file[1])
  /\ IsTagLine(file[2])
  /\ inHeader

\* C2: the issue list only grows at its end, and its line numbers never
\* decrease from one element to the next, whatever way the scan ends.
C2_IssuesOrdered ==
  [][IsPrefix(errors, errors') /\ NonDecreasing(errors')]_vars

\* a read error after a line that produced issues: three issues in line order
C2_Witness ==
  /\ pc = "v_done"
  /\ Len(errors) >= 3
  /\ errors[Len(errors)].Message.fmt = "Error reading file: %v"
  /\ errors[Len(errors)].Line = 2
  /\ errors[1].Line = 1
  /\ errors[Len(errors) - 1].Line = 2

\* the tag a line holds: <<>>, or <<trimmed line, name, value>>
TagOf(l) == tagPattern(TrimSpace(l))

IsDateTag(l) ==
  /\ IsTagLine(l)
  /\ TagOf(l) # <<>>
  /\ ToLower(TagOf(l)[2]) \in {NameDate, NameEventDate}

IsDigits(s, i, j) == j <= Len(s) /\ \A k \in i..j : s[k] \in Digit

\* the shapes of date values, character by character
ShapeISO(t) ==
  /\ Len(t) = 10
  /\ IsDigits(t, 1, 4) /\ t[5] = "-" /\ IsDigits(t, 6, 7) /\ t[8] = "-"
  /\ IsDigits(t, 9, 10)

ShapeDMY(t) ==
  /\ Len(t) = 10
  /\ IsDigits(t, 1, 2) /\ t[3] = "/" /\ IsDigits(t, 4, 5) /\ t[6] = "/"
  /\ IsDigits(t, 7, 10)

ShapeYMD(t) ==
  /\ Len(t) = 10
  /\ IsDigits(t, 1, 4) /\ t[5] = "/" /\ IsDigits(t, 6, 7) /\ t[8] = "/"
  /\ IsDigits(t, 9, 10)

ShapeNoSep(t) == Len(t) = 8 /\ IsDigits(t, 1, 8)

ShapeAccepted(v) ==
  \/ /\ Len(v) = 10
     /\ IsDigits(v, 1, 4) /\ v[5] = "." /\ IsDigits(v, 6, 7) /\ v[8] = "."
     /\ IsDigits(v, 9, 10)
  \/ v = <<"?", "?", "?", "?", ".", "?", "?", ".", "?", "?">>

Correctable(t) == ShapeISO(t) \/ ShapeDMY(t) \/ ShapeYMD(t) \/ ShapeNoSep(t)

\* the characters of l other than ( ) { }
RECURSIVE NonDelimiters(_)
NonDelimiters(l) ==
  IF l = <<>> THEN <<>>
  ELSE (IF Head(l) \in {"(", ")", "{", "}"} THEN <<>> ELSE <<Head(l)>>)
       \o NonDelimiters(Tail(l))

\* what WriteCorrectedFile writes for line l, as a function of l alone
ExpectedOut(l) ==
  IF IsBlank(l) THEN l
  ELSE IF IsTagLine(l)
       THEN IF IsDateTag(l) /\ tryFixDate(TagOf(l)[3]).ok
            THEN Tag(TagOf(l)[2], tryFixDate(TagOf(l)[3]).date)
            ELSE l
  ELSE fixBalancedDelimiters(l)

\* C3: WriteCorrectedFile writes one newline-terminated line for each line it
\* has read, the k-th one a function of the k-th input line alone; when it
\* returns nil it has written as many lines as the file holds.
C3_OneLineOutPerLineIn ==
  /\ pc = "w_scan" => Len(out) = lineCount
  /\ pc = "w_done" /\ wErr = "" => Len(out) = Len(file)
  /\ \A k \in 1..Len(out) : out[k] = Nl(ExpectedOut(file[k]))

\* a blank line and a movetext line in need of repair, both written
C3_Witness ==
  /\ pc = "w_done"
  /\ wErr = ""
  /\ Len(file) = 2
  /\ IsBlank(file[1])
  /\ file[1] # <<>>
  /\ out[1] = Nl(file[1])
  /\ IsMoveLine(file[2])
  /\ out[2] # Nl(file[2])

\* C4 as stated: every movetext line is written with exactly the characters
\* it has in the input.
C4_MovetextUnchanged ==
  \A k \in 1..Len(out) : IsMoveLine(file[k]) => out[k] = Nl(file[k])

\* C4, amended: a blank line, a tag line that is no Date or EventDate tag and
\* a movetext line whose parentheses and braces are properly nested are
\* written unchanged; a movetext line that is not properly nested is written
\* repaired: changed, properly nested, its characters other than ( ) { } kept
\* in order.
C4_OnlyDatesAndDelimiters ==
  \A k \in 1..Len(out) :
    LET l == file[k]
        o == SubSeq(out[k], 1, Len(out[k]) - 1)
    IN  /\ out[k] = Nl(o)
        /\ IsBlank(l) => o = l
        /\ IsTagLine(l) /\ ~IsDateTag(l) => o = l
        /\ IsMoveLine(l) /\ checkProperNesting(l) => o = l
        /\ IsMoveLine(l) /\ ~checkProperNesting(l) =>
             /\ o # l
             /\ checkProperNesting(o)
             /\ NonDelimiters(o) = NonDelimiters(l)

\* a movetext line with an unclosed variation and comment, written repaired
C4_Witness ==
  /\ Len(out) >= 1
  /\ file[1] = LineOpenVariation
  /\ out[1] = Nl(LineOpenVariation \o <<"}", ")">>)

\* the notices "Date auto-corrected" among the issues
RECURSIVE Notices(_)
Notices(errs) ==
  IF errs = <<>> THEN <<>>
  ELSE (IF Head(errs).Message.fmt = FmtDateCorrected THEN <<Head(errs)>> ELSE <<>>)
       \o Notices(Tail(errs))

\* C5: after both passes have gone through the file, for every line k that
\* holds a Date or EventDate tag with a value of a correctable shape the
\* issues at k are one notice "Date auto-corrected: 'old' -> 'new'" and the
\* k-th line written is [Name "new"]; a tag line without such a notice is
\* written unchanged.
C5_PassesAgreeOnDates ==
  ValidateCompleted /\ WriteCompleted =>
    /\ lineNumber = lineCount
    /\ \A k \in 1..Len(file) :
         LET l == file[k]
             iss == IssuesAt(errors, k)
         IN  /\ IsDateTag(l) /\ Correctable(TrimSpace(TagOf(l)[3])) =>
                  /\ Len(iss) = 1
                  /\ iss[1].Message.fmt = FmtDateCorrected
                  /\ iss[1].Message.args[1] = TagOf(l)[3]
                  /\ out[k] = Nl(Tag(TagOf(l)[2], iss[1].Message.args[2]))
             /\ IsTagLine(l) /\ Notices(iss) = <<>> => out[k] = Nl(l)

\* a blank line, then an EventDate tag in day/month/year form: the notice is
\* at line 2 and the second line written is the corrected tag
C5_Witness ==
  /\ ValidateCompleted
  /\ WriteCompleted
  /\ Len(file) = 2
  /\ IsBlank(file[1])
  /\ file[2] = Tag(StrEventDate, StrDMYDate)
  /\ errors = <<ValidationError(2, Sprintf(FmtDateCorrected,
                                           <<StrDMYDate, StrCorrectDate>>))>>
  /\ out[2] = Nl(Tag(StrEventDate, StrCorrectDate))

\* the issues at line k that are about the content of the line
RECURSIVE ContentIssuesAt(_, _)
ContentIssuesAt(errs, k) ==
  IF errs = <<>> THEN <<>>
  ELSE (IF Head(errs).Line = k /\ Head(errs).Message.fmt \notin IOFormats
        THEN <<Head(errs)>> ELSE <<>>)
       \o ContentIssuesAt(Tail(errs), k)

\* C6: validating a file made of well-formed tag lines, blank lines and
\* movetext lines of consecutively numbered groups of valid moves, with or
\* without a result at the end, yields no issue (short of an I/O failure).
C6_WellFormedNoIssues == ~IOFailed => errors = <<>>

\* a whole file of two games validated without an issue, its first movetext
\* line numbered 9 and 10
C6_Witness ==
  /\ ValidateCompleted
  /\ errors = <<>>
  /\ Len(file) = 8
  /\ file[5] = <<"9", ".", " ", "Q", "h", "4", "x", "e", "1", " ", "B", "x", "h", "7", "+", "!", " ", "1", "0", ".", " ", "O", "-", "O", " ", "b", "1", "=", "R", "#", " ", "1", "/", "2", "-", "1", "/", "2">>

\* C7: a Date or EventDate tag whose value is four digits, ".", two digits,
\* ".", two digits, or ????.??.??, gets no issue, whatever the digits, and is
\* written unchanged.
C7_AcceptedDatesUntouched ==
  \A k \in 1..Len(file) :
    IsDateTag(file[k]) /\ ShapeAccepted(TagOf(file[k])[3]) =>
      /\ ContentIssuesAt(errors, k) = <<>>
      /\ k <= Len(out) => out[k] = Nl(file[k])

\* the date 2024.15.15, month 15, validated and written as it is
C7_Witness ==
  /\ ValidateCompleted
  /\ WriteCompleted
  /\ file = <<Tag(StrDate, <<"2", "0", "2", "4", ".", "1", "5", ".", "1", "5">>)>>
  /\ errors = <<>>
  /\ out = <<Nl(file[1])>>

YMD(y, m, d) == y \o <<".">> \o m \o <<".">> \o d

\* the corrected form of a value of a correctable shape
ExpectedFix(t) ==
  IF ShapeISO(t) \/ ShapeYMD(t)
  THEN YMD(SubSeq(t, 1, 4), SubSeq(t, 6, 7), SubSeq(t, 9, 10))
  ELSE IF ShapeDMY(t)
       THEN YMD(SubSeq(t, 7, 10), SubSeq(t, 4, 5), SubSeq(t, 1, 2))
  ELSE YMD(SubSeq(t, 1, 4), SubSeq(t, 5, 6), SubSeq(t, 7, 8))

\* tryFixDate on the value of a correctable shape, and the notice validation
\* gives for it
FixesAsSpecified(k) ==
  LET v == TagOf(file[k])[3]
      t == TrimSpace(v)
  IN  Correctable(t) =>
        /\ tryFixDate(v) = [ok |-> TRUE, date |-> ExpectedFix(t)]
        /\ ContentIssuesAt(errors, k) =
             <<ValidationError(k, Sprintf(FmtDateCorrected, <<v, ExpectedFix(t)>>))>>

IsResultTag(l) ==
  /\ IsTagLine(l)
  /\ TagOf(l) # <<>>
  /\ ToLower(TagOf(l)[2]) = <<"r", "e", "s", "u", "l", "t">>

LegalResults == {StrWhiteWins, StrBlackWins, StrDraw, StrUnknown}

\* C9: a Result tag gets no issue when its value is one of 1-0, 0-1, 1/2-1/2
\* and *, and one "Invalid result" issue at its line for any other value.
C9_ResultExact ==
  \A k \in 1..lineNumber :
    IsResultTag(file[k]) =>
      LET v == TagOf(file[k])[3]
      IN  ContentIssuesAt(errors, k) =
            IF v \in LegalResults THEN <<>>
            ELSE <<ValidationError(k, Sprintf(FmtInvalidResult, <<v>>))>>

\* the value " 1-0", a legal result but for the blank before it, reported
C9_Witness ==
  /\ pc = "v_done"
  /\ file = <<Tag(StrResult, <<" ">> \o StrWhiteWins)>>
  /\ errors = <<ValidationError(1, Sprintf(FmtInvalidResult,
                                           <<<<" ">> \o StrWhiteWins>>))>>

\* the tag grammar [<name> "<value>"]: "[", word characters, white space, a
\* quoted value, "]"
IsTagGrammar(l) ==
  \E a \in 2..Len(l) : \E b \in (a + 2)..Len(l) :
    /\ l[1] = "["
    /\ AllIn(l, 2, a, WordChar)
    /\ AllIn(l, a + 1, b - 1, Space)
    /\ l[b] = "\""
    /\ Len(l) - 1 > b
    /\ l[Len(l) - 1] = "\""
    /\ l[Len(l)] = "]"

\* C10: a line that starts with "[" and is no tag gets one issue, "Malformed
\* PGN tag" with the trimmed line, and nothing else; the scan goes on to the
\* end of the file.
C10_MalformedTag ==
  \A k \in 1..lineNumber :
    IsTagLine(file[k]) /\ ~IsTagGrammar(TrimSpace(file[k])) =>
      /\ ContentIssuesAt(errors, k) =
           <<ValidationError(k, Sprintf(FmtMalformedTag, <<TrimSpace(file[k])>>))>>
      /\ pc # "v_scan" /\ ~IOFailed => lineNumber = Len(file)

\* a tag without the blank before its value, then a date tag: one issue for
\* the first line, and the notice of the second after it
C10_Witness ==
  /\ pc = "v_done"
  /\ file = <<<<"[", "D", "a", "t", "e", "\"", "2", "0", "2", "4", "-", "0", "1", "-", "1", "5", "\"", "]">>, Tag(StrDate, StrISODate)>>
  /\ errors =
       << ValidationError(1, Sprintf(FmtMalformedTag, <<file[1]>>)),
          ValidationError(2, Sprintf(FmtDateCorrected, <<StrISODate, StrCorrectDate>>)) >>

\* two names that differ at most in the case of their letters
EqualFold(a, b) ==
  /\ Len(a) = Len(b)
  /\ \A i \in 1..Len(a) :
       \/ a[i] = b[i]
       \/ \E j \in 1..26 : {a[i], b[i]} = {UpperSeq[j], LowerSeq[j]}

\* the issues the date check gives for value v at line k
DateIssues(v, k) ==
  IF ShapeAccepted(v) THEN <<>>
  ELSE IF Correctable(TrimSpace(v))
       THEN <<ValidationError(k, Sprintf(FmtDateCorrected, <<v, ExpectedFix(TrimSpace(v))>>))>>
  ELSE <<ValidationError(k, Sprintf(FmtInvalidDate, <<v>>))>>

\* the issues the result check gives for value v at line k
ResultIssues(v, k) ==
  IF v \in LegalResults THEN <<>>
  ELSE <<ValidationError(k, Sprintf(FmtInvalidResult, <<v>>))>>

\* C11: the check of a well-formed tag is chosen by its name, letter case
\* ignored: the issues of a tag named date or eventdate are those of the date
\* check, the issues of a tag named result are those of the result check, and
\* a tag of any other name has no issue, whatever its value.
C11_CheckChosenByName ==
  \A k \in 1..lineNumber :
    IsTagLine(file[k]) /\ TagOf(file[k]) # <<>> =>
      LET name == TagOf(file[k])[2]
          v == TagOf(file[k])[3]
      IN  ContentIssuesAt(errors, k) =
            IF EqualFold(name, StrDate) \/ EqualFold(name, StrEventDate)
            THEN DateIssues(v, k)
            ELSE IF EqualFold(name, StrResult) THEN ResultIssues(v, k)
            ELSE <<>>

\* the tag rESULT with the value 2-0: the result check ran
C11_Witness ==
  /\ pc = "v_done"
  /\ file = <<Tag(<<"r", "E", "S", "U", "L", "T">>, <<"2", "-", "0">>)>>
  /\ errors = <<ValidationError(1, Sprintf(FmtInvalidResult, <<<<"2", "-", "0">>>>))>>

\* the number of characters c among the first n of line
RECURSIVE Count(_, _, _)
Count(line, c, n) ==
  IF n = 0 THEN 0
  ELSE Count(line, c, n - 1) + (IF line[n] = c THEN 1 ELSE 0)

\* no prefix of line has more closers than openers, and the whole line has as
\* many of the one as of the other
BalancedByCount(line, open, close) ==
  /\ \A n \in 0..Len(line) : Count(line, open, n) >= Count(line, close, n)
  /\ Count(line, open, Len(line)) = Count(line, close, Len(line))

\* how many issues of errs have the message text
RECURSIVE Times(_, _)
Times(errs, text) ==
  IF errs = <<>> THEN 0
  ELSE (IF Head(errs).Message = Sprintf(text, <<>>) THEN 1 ELSE 0)
       + Times(Tail(errs), text)

\* C12: checkBalancedDelimiters is true exactly when no prefix of the line
\* has more closers than openers and the line has as many closers as openers;
\* the parentheses warning and the braces warning are issued, once, exactly
\* for the lines unbalanced in the one and in the other pair.
C12_BalancedIffCounts ==
  \A k \in 1..lineNumber :
    IsMoveLine(file[k]) =>
      LET line == TrimSpace(file[k])
          iss == ContentIssuesAt(errors, k)
      IN  /\ checkBalancedDelimiters(line, "(", ")") = BalancedByCount(line, "(", ")")
          /\ checkBalancedDelimiters(line, "{", "}") = BalancedByCount(line, "{", "}")
          /\ Times(iss, MsgUnbalancedParens) =
               (IF BalancedByCount(line, "(", ")") THEN 0 ELSE 1)
          /\ Times(iss, MsgUnbalancedBraces) =
               (IF BalancedByCount(line, "{", "}") THEN 0 ELSE 1)

\* the line ")(", as many closers as openers, reported unbalanced in its
\* parentheses and not in its braces
C12_Witness ==
  /\ pc = "v_done"
  /\ file = << <<")", "(">> >>
  /\ errors = << ValidationError(1, Sprintf(MsgUnbalancedParens, <<>>)),
                 ValidationError(1, Sprintf(MsgImproperNesting, <<>>)) >>

\* the characters ( ) { } of l, in order
RECURSIVE Delimiters(_)
Delimiters(l) ==
  IF l = <<>> THEN <<>>
  ELSE (IF Head(l) \in {"(", ")", "{", "}"} THEN <<Head(l)>> ELSE <<>>)
       \o Delimiters(Tail(l))

\* w is a well-nested word over the pairs ( ) and { }: it is empty, or taking
\* out an adjacent pair "()" or "{}" leaves a well-nested word
RECURSIVE WellNested(_)
WellNested(w) ==
  \/ w = <<>>
  \/ \E i \in 1..(Len(w) - 1) :
       /\ <<w[i], w[i + 1]>> \in { <<"(", ")">>, <<"{", "}">> }
       /\ WellNested(SubSeq(w, 1, i - 1) \o SubSeq(w, i + 2, Len(w)))

\* C13: checkProperNesting is true exactly when the delimiters of the line
\* form a well-nested word, and the nesting warning is issued, once, exactly
\* for the other lines.
C13_NestingIffWellNested ==
  \A k \in 1..lineNumber :
    IsMoveLine(file[k]) =>
      LET line == TrimSpace(file[k])
          iss == ContentIssuesAt(errors, k)
      IN  /\ checkProperNesting(line) = WellNested(Delimiters(line))
          /\ Times(iss, MsgImproperNesting) =
               (IF WellNested(Delimiters(line)) THEN 0 ELSE 1)

\* the line "({)}": both pairs balanced, the nesting warning the only issue
C13_Witness ==
  /\ pc = "v_done"
  /\ file = << <<"(", "{", ")", "}">> >>
  /\ BalancedByCount(file[1], "(", ")")
  /\ BalancedByCount(file[1], "{", "}")
  /\ errors = << ValidationError(1, Sprintf(MsgImproperNesting, <<>>)) >>

\* C14: the delimiter warnings of a movetext line are decided by that line
\* alone, whatever lines come before it: each of the three warnings is there,
\* once, exactly when the delimiters of the line by itself are unbalanced in
\* the parentheses, unbalanced in the braces, not well nested.  A variation or comment opened
\* on one line and closed on a later one is reported on both lines.
C14_DelimiterChecksPerLine ==
  \A k \in 1..lineNumber :
    IsMoveLine(file[k]) =>
      LET delims == Delimiters(file[k])
          iss == ContentIssuesAt(errors, k)
      IN  /\ Times(iss, MsgUnbalancedParens) =
               (IF BalancedByCount(delims, "(", ")") THEN 0 ELSE 1)
          /\ Times(iss, MsgUnbalancedBraces) =
               (IF BalancedByCount(delims, "{", "}") THEN 0 ELSE 1)
          /\ Times(iss, MsgImproperNesting) =
               (IF WellNested(delims) THEN 0 ELSE 1)

\* a variation and a comment opened on line 1 and closed on line 2: both
\* unbalanced warnings on line 1 and both again on line 2
C14_Witness ==
  /\ ValidateCompleted
  /\ file = <<LineOpenVariation, LineCloseVariation>>
  /\ BalancedByCount(file[1] \o file[2], "(", ")")
  /\ BalancedByCount(file[1] \o file[2], "{", "}")
  /\ \A k \in 1..2 :
       /\ Times(IssuesAt(errors, k), MsgUnbalancedParens) = 1
       /\ Times(IssuesAt(errors, k), MsgUnbalancedBraces) = 1

\* the move numbers validateMoveNotation extracts from a line, in order
NumbersOf(line) ==
  LET matches == movePattern(removeVariations(removeComments(line)))
  IN  [i \in 1..Len(matches) |-> Atoi(matches[i][2])]

\* one warning for every number from the i-th on that is not its predecessor
\* plus one
RECURSIVE SequenceWarningsFrom(_, _, _)
SequenceWarningsFrom(nums, i, k) ==
  IF i > Len(nums) THEN <<>>
  ELSE (IF nums[i] # nums[i - 1] + 1
        THEN <<ValidationError(k, Sprintf(FmtOutOfSequence,
                                  <<Itoa(nums[i - 1] + 1), Itoa(nums[i])>>))>>
        ELSE <<>>)
       \o SequenceWarningsFrom(nums, i + 1, k)

\* the issues of errs about move numbers
RECURSIVE OutOfSequence(_)
OutOfSequence(errs) ==
  IF errs = <<>> THEN <<>>
  ELSE (IF Head(errs).Message.fmt = FmtOutOfSequence THEN <<Head(errs)>> ELSE <<>>)
       \o OutOfSequence(Tail(errs))

\* C15: on a movetext line with the move numbers n1, n2, ... the first number
\* gives no warning and every later n(i) gives one warning "Expected
\* n(i-1)+1, found n(i)" when it is not n(i-1)+1 and none otherwise, whatever
\* the first number, 0 included.
C15_SequenceAsStated ==
  \A k \in 1..lineNumber :
    IsMoveLine(file[k]) =>
      OutOfSequence(ContentIssuesAt(errors, k)) =
        SequenceWarningsFrom(NumbersOf(TrimSpace(file[k])), 2, k)

\* t without the characters of cut at its end
Stripped(t, cut) ==
  LET n == CHOOSE n \in 0..Len(t) :
             /\ n = 0 \/ t[n] \notin cut
             /\ \A i \in (n + 1)..Len(t) : t[i] \in cut
  IN  SubSeq(t, 1, n)

GrammarFiles == {"a", "b", "c", "d", "e", "f", "g", "h"}

GrammarRanks == {"1", "2", "3", "4", "5", "6", "7", "8"}

GrammarPieces == {"K", "Q", "R", "B", "N"}

\* a square [a-h][1-8] at positions i, i + 1 of m
SquareAt(m, i) ==
  /\ i + 1 <= Len(m)
  /\ m[i] \in GrammarFiles
  /\ m[i + 1] \in GrammarRanks

\* [a-h]?[a-h][1-8]=[QRBN]
GrammarPromotion(m) ==
  \/ /\ Len(m) = 4
     /\ SquareAt(m, 1)
     /\ m[3] = "="
     /\ m[4] \in {"Q", "R", "B", "N"}
  \/ /\ Len(m) = 5
     /\ m[1] \in GrammarFiles
     /\ SquareAt(m, 2)
     /\ m[4] = "="
     /\ m[5] \in {"Q", "R", "B", "N"}

\* [KQRBN][a-h]?[1-8]?x?[a-h][1-8]
GrammarPiece(m) ==
  /\ Len(m) \in 3..6
  /\ m[1] \in GrammarPieces
  /\ SquareAt(m, Len(m) - 1)
  /\ \E a \in {0, 1}, b \in {0, 1}, c \in {0, 1} :
       /\ 1 + a + b + c + 2 = Len(m)
       /\ a = 1 => m[2] \in GrammarFiles
       /\ b = 1 => m[2 + a] \in GrammarRanks
       /\ c = 1 => m[2 + a + b] = "x"

\* [a-h]x?[a-h][1-8]
GrammarPawnCapture(m) ==
  \/ Len(m) = 3 /\ m[1] \in GrammarFiles /\ SquareAt(m, 2)
  \/ Len(m) = 4 /\ m[1] \in GrammarFiles /\ m[2] = "x" /\ SquareAt(m, 3)

\* the move-token grammar
Grammar(t) ==
  LET m == Stripped(t, {"!", "?"})
      c == Stripped(m, {"+", "#"})
  IN  \/ m \in {StrWhiteWins, StrBlackWins, StrDraw, StrUnknown}
      \/ c \in { <<"O", "-", "O">>, <<"O", "-", "O", "-", "O">>,
                  <<"0", "-", "0">>, <<"0", "-", "0", "-", "0">> }
      \/ GrammarPromotion(c)
      \/ GrammarPiece(c)
      \/ GrammarPawnCapture(c)
      \/ Len(c) = 2 /\ SquareAt(c, 1)

IsToken(t) ==
  t # <<>> /\ \A i \in 1..Len(t) : t[i] \notin {" ", "\t", "(", ")", "{", "}"}

\* the token of a line "1. <token>" or "1. e4 <token>", <<>> for another line
TokenOf(line) ==
  LET afterE4 == SubSeq(line, 7, Len(line))
      after1 == SubSeq(line, 4, Len(line))
  IN  IF HasPrefix(line, <<"1", ".", " ", "e", "4", " ">>) /\ IsToken(afterE4)
      THEN afterE4
      ELSE IF HasPrefix(line, <<"1", ".", " ">>) /\ IsToken(after1) THEN after1
      ELSE <<>>

\* the issues of errs about move notation
RECURSIVE InvalidMoves(_)
InvalidMoves(errs) ==
  IF errs = <<>> THEN <<>>
  ELSE (IF Head(errs).Message.fmt = FmtInvalidMove THEN <<Head(errs)>> ELSE <<>>)
       \o InvalidMoves(Tail(errs))

AllowedSymbols == {"+", "#", "=", "-", "!", "?", "(", ")", ".", "*", "/", "{", "}"}

\* letters, digits, white space and the symbols of movetext
AllowedChars == Lower \cup Upper \cup Digit \cup {" ", "\t"} \cup AllowedSymbols

HasDisallowed(line) == \E i \in 1..Len(line) : line[i] \notin AllowedChars

\* errs without the issues about disallowed characters
RECURSIVE OtherThan(_, _)
OtherThan(errs, text) ==
  IF errs = <<>> THEN <<>>
  ELSE (IF Head(errs).Message = Sprintf(text, <<>>) THEN <<>> ELSE <<Head(errs)>>)
       \o OtherThan(Tail(errs), text)

\* the issues of the delimiter checks and of the move check for a line, each
\* check taken by itself
OtherChecks(line, k) ==
  LET delims == Delimiters(line)
  IN  (IF BalancedByCount(delims, "(", ")") THEN <<>>
       ELSE <<ValidationError(k, Sprintf(MsgUnbalancedParens, <<>>))>>)
      \o (IF BalancedByCount(delims, "{", "}") THEN <<>>
          ELSE <<ValidationError(k, Sprintf(MsgUnbalancedBraces, <<>>))>>)
      \o (IF WellNested(delims) THEN <<>>
          ELSE <<ValidationError(k, Sprintf(MsgImproperNesting, <<>>))>>)
      \o validateMoveNotation(<<>>, line, k)

\* C17: a movetext line gets the issue "disallowed characters found", once
\* and before its other issues, exactly when its trimmed text, comments and
\* variations included, has a character outside the letters, digits, white
\* space and + # = - ! ? ( ) . * / { }; its other issues are those of the
\* other checks, with or without that issue.
C17_DisallowedCharacters ==
  \A k \in 1..lineNumber :
    IsMoveLine(file[k]) =>
      LET line == TrimSpace(file[k])
          iss == ContentIssuesAt(errors, k)
      IN  /\ Times(iss, MsgDisallowed) = (IF HasDisallowed(line) THEN 1 ELSE 0)
          /\ HasDisallowed(line) =>
               iss[1] = ValidationError(k, Sprintf(MsgDisallowed, <<>>))
          /\ OtherThan(iss, MsgDisallowed) = OtherChecks(line, k)

\* a "$" inside an unclosed comment inside an unclosed variation: the issue
\* about the character and the three delimiter warnings
C17_Witness ==
  /\ pc = "v_done"
  /\ file = << <<"1", ".", " ", "e", "4", " ", "(", "1", ".", " ", "d", "4", " ", "{", "a", "$">> >>
  /\ errors = << ValidationError(1, Sprintf(MsgDisallowed, <<>>)),
                 ValidationError(1, Sprintf(MsgUnbalancedParens, <<>>)),
                 ValidationError(1, Sprintf(MsgUnbalancedBraces, <<>>)),
                 ValidationError(1, Sprintf(MsgImproperNesting, <<>>)) >>

TagFormats == {FmtMalformedTag, FmtInvalidDate, FmtDateCorrected, FmtInvalidResult}

MoveFormats ==
  {MsgDisallowed, MsgUnbalancedParens, MsgUnbalancedBraces, MsgImproperNesting,
   FmtOutOfSequence, FmtInvalidMove}

FormatsOf(errs) == { errs[i].Message.fmt : i \in 1..Len(errs) }

\* C18: a line is routed by its trimmed text alone.  A blank line gives no
\* issue and leaves inHeader as it is; a line starting with "[" gets the
\* issues of the tag checker and none of the movetext checker, also after
\* movetext; any other line gets the issues of the movetext checker and none
\* of the tag checker.
C18_RoutedByText ==
  /\ [](\A k \in 1..lineNumber :
         LET l == file[k]
             iss == ContentIssuesAt(errors, k)
         IN  /\ IsBlank(l) => iss = <<>>
             /\ IsTagLine(l) =>
                  /\ iss = validateTag(<<>>, TrimSpace(l), k)
                  /\ FormatsOf(iss) \subseteq TagFormats
             /\ IsMoveLine(l) =>
                  /\ iss = validateMoves(<<>>, TrimSpace(l), k)
                  /\ FormatsOf(iss) \subseteq MoveFormats)
  /\ [][ScanStep /\ IsBlank(file[lineNumber']) =>
          inHeader' = inHeader /\ errors' = errors]_vars

\* a malformed tag after a movetext line: the tag checker's issue, and none
\* about disallowed characters
C18_Witness ==
  /\ ValidateCompleted
  /\ file = <<LineMoves, LineMalformed>>
  /\ errors = <<ValidationError(2, Sprintf(FmtMalformedTag, <<LineMalformed>>))>>

\* ValidateFile has returned
ValidateReturned == pc \notin {"main", "v_stat", "v_scan"}

\* the issues of the lines 1..n, line by line
RECURSIVE ScanIssues(_)
ScanIssues(n) ==
  IF n = 0 THEN <<>>
  ELSE ScanIssues(n - 1)
       \o (IF IsBlank(file[n]) THEN <<>>
           ELSE IF IsTagLine(file[n]) THEN validateTag(<<>>, TrimSpace(file[n]), n)
           ELSE validateMoves(<<>>, TrimSpace(file[n]), n))

IOIssue(n, format) == ValidationError(n, Sprintf(format, <<ErrText>>))

ExitStep == pc \in {"w_done", "report"} /\ pc' = "exit"

HeldList(h) ==
  IF h.arr # arr THEN h.list
  ELSE [i \in 1..Len(h.list) |-> IF i <= Len(errors) THEN errors[i] ELSE h.list[i]]

\* the scan of the first n lines of f by an instance just created
RECURSIVE FreshScan(_, _)
FreshScan(f, n) ==
  IF n = 0 THEN [errors |-> <<>>, inHeader |-> TRUE]
  ELSE LET before == FreshScan(f, n - 1)
       IN  ValidateLine(before.errors, before.inHeader, f[n], n)

\* the list an instance just created returns for f when its I/O ends as the
\* I/O of the call that returned errs did
FreshList(f, errs) ==
  LET last == errs[Len(errs)]
  IN  IF errs = <<>> \/ last.Message.fmt \notin IOFormats
      THEN FreshScan(f, Len(f)).errors
      ELSE IF last.Message.fmt = "Error reading file: %v"
      THEN Append(FreshScan(f, last.Line).errors, last)
      ELSE <<last>>

\* C21: a validator carries no state from one call to the next: the list
\* ValidateFile returns for a file on an instance that has validated (or
\* corrected) another file is the list a new instance returns for it, and
\* the list returned for the earlier file is not changed by the later call.
C21_NoStateCarriedOver ==
  /\ held # <<>> /\ pc \in {"v_done", "w_done"} => errors = FreshList(file, errors)
  /\ \A i \in 1..Len(held) : HeldList(held[i]) = held[i].list

\* [Date "x"] validated, then the movetext line with bad moves on the same
\* instance: the second list holds only the issues of the second file, the
\* kept first list still the issue of the first
C21_Witness ==
  /\ pc = "v_done"
  /\ Len(held) = 1
  /\ held[1].file = <<Tag(StrDate, <<"x">>)>>
  /\ held[1].list = <<ValidationError(1, Sprintf(FmtInvalidDate, << <<"x">> >>))>>
  /\ file = <<LineBadMoves>>
  /\ Len(errors) >= 2
  /\ errors[1].Message.fmt = MsgDisallowed

\* the characters of l at the positions of S, in order
RECURSIVE KeepAt(_, _, _)
KeepAt(l, S, i) ==
  IF i > Len(l) THEN <<>>
  ELSE (IF i \in S THEN <<l[i]>> ELSE <<>>) \o KeepAt(l, S, i + 1)

\* position i lies in a comment: a "{" stands before it with no "}" between
InComment(l, i) ==
  \E j \in 1..(i - 1) : l[j] = "{" /\ \A k \in (j + 1)..(i - 1) : l[k] # "}"

\* the text left when the comments are taken out; braces are no text
OutsideComments(l) ==
  KeepAt(l, {i \in 1..Len(l) : l[i] \notin {"{", "}"} /\ ~InComment(l, i)}, 1)

\* position i lies in a variation: from some position before it on, more
\* parentheses are opened than closed up to i
InVariation(c, i) ==
  \E j \in 1..(i - 1) :
    (Count(c, "(", i - 1) - Count(c, "(", j - 1)) >
    (Count(c, ")", i - 1) - Count(c, ")", j - 1))

\* the text left when the variations are taken out; parentheses are no text
OutsideVariations(c) ==
  KeepAt(c, {i \in 1..Len(c) : c[i] \notin {"(", ")"} /\ ~InVariation(c, i)}, 1)

\* the text of a line outside its comments and, then, outside its variations
Outside(l) == OutsideVariations(OutsideComments(l))

\* the issues of errs about move notation and move numbers
RECURSIVE MoveWarnings(_)
MoveWarnings(errs) ==
  IF errs = <<>> THEN <<>>
  ELSE (IF Head(errs).Message.fmt \in {FmtOutOfSequence, FmtInvalidMove}
        THEN <<Head(errs)>> ELSE <<>>)
       \o MoveWarnings(Tail(errs))

\* C22: the move-notation and move-number checks of a movetext line see only
\* the text outside its comments (from a "{" to the next "}", or to the end
\* of the line, not counted in depth) and, then, outside its variations
\* (counted in depth, a ")" that closes nothing ignored): the warnings of the
\* line are those of that text, so no token inside a comment or a variation
\* is ever warned about.
C22_SpansNotChecked ==
  \A k \in 1..lineNumber :
    IsMoveLine(file[k]) /\ pc = "v_scan" =>
      LET line == TrimSpace(file[k])
      IN  MoveWarnings(ContentIssuesAt(errors, k)) =
            MoveLoop(<<>>, 0, movePattern(Outside(line)), 1, k)

\* 1. e4 (7. d4 (Xe1 : the number out of sequence stands in a variation, the
\* token that is no move in a variation inside it, and nothing is warned
C22_Witness ==
  /\ pc = "v_scan"
  /\ lineNumber = 1
  /\ file[1] = <<"1", ".", " ", "e", "4", " ", "(", "7", ".", " ", "d", "4", " ",
                 "(", "X", "e", "1", " ">>
  /\ MoveWarnings(errors) = <<>>
  /\ Outside(TrimSpace(file[1])) = <<"1", ".", " ", "e", "4", " ">>

\* the plain promotion s=P and the capture-promotion fxs=P: f a file, s a
\* square, P one of Q, R, B, N
IsPlainPromotion(t) ==
  /\ Len(t) = 4
  /\ SquareAt(t, 1)
  /\ t[3] = "="
  /\ t[4] \in {"Q", "R", "B", "N"}

IsCapturePromotion(t) ==
  /\ Len(t) = 6
  /\ t[1] \in GrammarFiles
  /\ t[2] = "x"
  /\ IsPlainPromotion(SubSeq(t, 3, 6))

\* C23: the plain promotion s=P and the capture-promotion written with x,
\* fxs=P (exd8=R), are accepted as valid move notation: a line "1. <token>"
\* or "1. e4 <token>" with such a token gets no invalid-notation warning.
C23_CapturePromotionAccepted ==
  \A k \in 1..lineNumber :
    LET t == TokenOf(TrimSpace(file[k]))
    IN  IsMoveLine(file[k]) /\ (IsPlainPromotion(t) \/ IsCapturePromotion(t)) =>
          /\ isValidMoveNotation(t)
          /\ InvalidMoves(ContentIssuesAt(errors, k)) = <<>>

\* the date shapes, by name, and the shapes a value matches
AcceptedShapes == {"correct", "wildcard"}

FixedShapes == {"iso", "dmy", "ymd", "nosep"}

MatchesShape(name, s) ==
  CASE name = "correct" -> correctDatePattern(s)
    [] name = "wildcard" -> wildcardDatePattern(s)
    [] name = "iso" -> datePatternISO(s) # <<>>
    [] name = "dmy" -> datePatternDDMMYYYY(s) # <<>>
    [] name = "ymd" -> datePatternYYYYMMDD(s) # <<>>
    [] name = "nosep" -> datePatternNoSep(s) # <<>>

ShapesOf(s) == { name \in AcceptedShapes \cup FixedShapes : MatchesShape(name, s) }

\* what the correction pattern name makes of a value it matches
RewriteBy(name, s) ==
  LET m == CASE name = "iso" -> datePatternISO(s)
             [] name = "dmy" -> datePatternDDMMYYYY(s)
             [] name = "ymd" -> datePatternYYYYMMDD(s)
             [] name = "nosep" -> datePatternNoSep(s)
  IN  IF name = "dmy" THEN Dot(m[4], m[3], m[2]) ELSE Dot(m[2], m[3], m[4])

\* the correction patterns tried in the order given
RECURSIVE TryInOrder(_, _)
TryInOrder(order, s) ==
  IF order = <<>> THEN [ok |-> FALSE, date |-> <<>>]
  ELSE IF MatchesShape(Head(order), s)
       THEN [ok |-> TRUE, date |-> RewriteBy(Head(order), s)]
  ELSE TryInOrder(Tail(order), s)

Orders ==
  { o \in [1..4 -> FixedShapes] : \A i, j \in 1..4 : o[i] = o[j] => i = j }

\* C24: no value matches two of the six date shapes, so tryFixDate gives what
\* the four correction patterns give in any order, and it fails on every
\* value that validation accepts.
C24_ShapesDisjoint ==
  \A k \in 1..lineNumber :
    IsDateTag(file[k]) /\ pc = "v_scan" =>
      LET v == TagOf(file[k])[3]
          t == TrimSpace(v)
      IN  /\ Cardinality(ShapesOf(t)) <= 1
          /\ Cardinality(ShapesOf(v)) <= 1
          /\ \A o \in Orders : TryInOrder(o, t) = tryFixDate(v)
          /\ ShapesOf(v) \cap AcceptedShapes # {} => ~tryFixDate(v).ok

\* 2024/01/15 matches the pattern year/month/day and no other
C24_Witness ==
  /\ pc = "v_scan"
  /\ lineNumber = 1
  /\ file = <<Tag(StrDate, <<"2", "0", "2", "4", "/", "0", "1", "/", "1", "5">>)>>
  /\ ShapesOf(TagOf(file[1])[3]) = {"ymd"}
  /\ errors = <<ValidationError(1, Sprintf(FmtDateCorrected,
                    <<TagOf(file[1])[3], StrCorrectDate>>))>>

\* a written string without its line terminator, as the scanner hands it out
Unl(s) == SubSeq(s, 1, Len(s) - 1)

\* four digits, a dot, two digits, a dot, two digits
IsYearMonthDay(d) ==
  /\ Len(d) = 10
  /\ \A i \in {1, 2, 3, 4, 6, 7, 9, 10} : d[i] \in Digit
  /\ d[5] = "." /\ d[8] = "."

\* C25: a value tryFixDate returns on success has the form of four digits,
\* a dot, two digits, a dot and two digits; tryFixDate fails on it, and the
\* date tag line the correction pass writes for it gets no issue when it is
\* validated.
C25_FixedDatesAccepted ==
  \A k \in 1..lineNumber :
    IsDateTag(file[k]) /\ tryFixDate(TagOf(file[k])[3]).ok =>
      LET fixed == tryFixDate(TagOf(file[k])[3]).date
      IN  /\ IsYearMonthDay(fixed)
          /\ ~tryFixDate(fixed).ok
          /\ k <= Len(out) =>
                /\ out[k] = Nl(Tag(TagOf(file[k])[2], fixed))
                /\ ValidateLine(<<>>, TRUE, Unl(out[k]), k).errors = <<>>
                /\ CorrectLine(TRUE, Unl(out[k])).line = Unl(out[k])

\* [Date " 15/01/2024 "] is written as [Date "2024.01.15"], which validates
\* without an issue
C25_Witness ==
  /\ WriteCompleted
  /\ file = <<Tag(StrDate, <<" ">> \o StrDMYDate \o <<" ">>)>>
  /\ out = <<Nl(Tag(StrDate, StrCorrectDate))>>
  /\ ValidateLine(<<>>, TRUE, Unl(out[1]), 1).errors = <<>>

\* C26: a line that passes checkProperNesting passes checkBalancedDelimiters
\* for the parentheses and for the braces; a movetext line with the warning
\* "Unbalanced parentheses" or "Unbalanced curly braces" has the warning
\* "Improper nesting" too.
C26_NestingImpliesBalance ==
  \A k \in 1..lineNumber :
    IsMoveLine(file[k]) =>
      LET line == TrimSpace(file[k])
          iss == ContentIssuesAt(errors, k)
      IN  /\ checkProperNesting(line) =>
                /\ checkBalancedDelimiters(line, "(", ")")
                /\ checkBalancedDelimiters(line, "{", "}")
          /\ Times(iss, MsgUnbalancedParens) + Times(iss, MsgUnbalancedBraces) > 0 =>
                Times(iss, MsgImproperNesting) = 1

\* the line "a{(": both warnings of balance, and the nesting warning after them
C26_Witness ==
  /\ pc = "v_done"
  /\ file = << <<"a", "{", "(">> >>
  /\ errors = << ValidationError(1, Sprintf(MsgUnbalancedParens, <<>>)),
                 ValidationError(1, Sprintf(MsgUnbalancedBraces, <<>>)),
                 ValidationError(1, Sprintf(MsgImproperNesting, <<>>)) >>

\* C27: for every line, what fixBalancedDelimiters returns passes
\* checkProperNesting (and both checks of balance), holds the characters of
\* the line other than ( ) { } in their order, is the line itself exactly
\* when the line passes checkProperNesting, and is left as it is by
\* fixBalancedDelimiters; it is what the correction pass writes for a
\* movetext line.
C27_FixRepairs ==
  \A k \in 1..lineCount :
    IsMoveLine(file[k]) =>
      LET line == file[k]
          fixed == fixBalancedDelimiters(line)
      IN  /\ checkProperNesting(fixed)
          /\ checkBalancedDelimiters(fixed, "(", ")")
          /\ checkBalancedDelimiters(fixed, "{", "}")
          /\ NonDelimiters(fixed) = NonDelimiters(line)
          /\ (fixed = line) = checkProperNesting(line)
          /\ fixBalancedDelimiters(fixed) = fixed
          /\ k <= Len(out) => out[k] = Nl(fixed)

\* the line "({)a": the ")" that closes nothing is dropped and both openers
\* are closed at the end, inner one first
C27_Witness ==
  /\ WriteCompleted
  /\ file = << <<"(", "{", ")", "a">> >>
  /\ out = << <<"(", "{", "a", "}", ")", "\n">> >>

\* C28: the expected move number starts anew on every movetext line: the
\* warnings about move numbers of a line are those of its own numbers, the
\* first of which is never warned about, whatever the last number of the
\* movetext line before it; a gap or a repetition from one line to the next
\* is not reported.  (Stated for the lines without a move number 0, the
\* value expectedMoveNumber starts with.)
C28_NumbersPerLine ==
  \A k \in 1..lineNumber :
    IsMoveLine(file[k]) /\ pc \in {"v_scan", "v_done"} =>
      LET nums == NumbersOf(TrimSpace(file[k]))
      IN  (\A i \in 1..Len(nums) : nums[i] # 0) =>
            OutOfSequence(ContentIssuesAt(errors, k)) = SequenceWarningsFrom(nums, 2, k)

\* 3. Bb5 a6 1-0 and, on the next line, 1. e4 e5 2. Nf3 Nc6: the number 1
\* after the number 3 gives no warning
C28_Witness ==
  /\ pc = "v_done"
  /\ file = <<LineMovesEnd, LineMoves>>
  /\ NumbersOf(file[1]) = <<3>>
  /\ NumbersOf(file[2]) = <<1, 2>>
  /\ errors = <<>>

\* the lines WriteCorrectedFile writes for the first n lines of f, and
\* inHeader after them
RECURSIVE CorrectedUpTo(_, _)
CorrectedUpTo(f, n) ==
  IF n = 0 THEN [lines |-> <<>>, inHeader |-> TRUE]
  ELSE LET before == CorrectedUpTo(f, n - 1)
           r == CorrectLine(before.inHeader, f[n])
       IN  [lines |-> Append(before.lines, r.line), inHeader |-> r.inHeader]

\* the file that was written, as its lines
Written == [k \in 1..Len(out) |-> Unl(out[k])]

\* C29: the correction pass applied to a file it has written writes that
\* file again, line for line.
C29_CorrectionIdempotent ==
  WriteCompleted => CorrectedUpTo(Written, Len(Written)).lines = Written

====
